---- MODULE Spec2Model ----
(***************************************************************************)
(* A model of the tRPC explorer's static analysis core: the router tree    *)
(* builder (parser.ts), the procedure analyzer (parserProcedureAnalysis.ts)*)
(* and the caches they share.                                              *)
(*                                                                         *)
(* Representation.                                                         *)
(*  - A path is a sequence of segments and a segment is a sequence of      *)
(*    strings: the name followed by its extensions, so that adding ".ts"   *)
(*    to a base is an operation on the value ("/p/src/f1.ts" is            *)
(*    << <<"p">>, <<"src">>, <<"f1", ".ts">> >>).  The root "/" is << >>.  *)
(*  - A source text (a schema expression, an inferred type) is a sequence  *)
(*    of tokens; undefined, null and "" are the empty sequence.            *)
(*  - The `${filePath}:${routerVarName}` key is the pair <<path, name>>:   *)
(*    a variable name holds no colon, so the string is injective.          *)
(*  - The recursion of parseRouterFromFile / parseRouterObject is an       *)
(*    explicit stack of frames, one step per object-literal property.      *)
(***************************************************************************)
EXTENDS Integers, Sequences, FiniteSets, TLC

VARIABLES
  fs,                        \* the file system: [files: path -> content, dirs: set of paths]
  tsConfigPathsCache,        \* parser.ts:17
  enumResolutionCache,       \* parserProcedureAnalysis.ts:11
  nearestTsConfigPathCache,  \* parserProcedureAnalysis.ts:12
  typeCheckerContextCache,   \* parserProcedureAnalysis.ts:13
  visited,                   \* the visited set of the build in progress
  stack,                     \* call stack of the build in progress
  results,                   \* what the top-level calls returned, oldest first
  expansions,                \* per key: calls of this build that passed the guards
  constructions,             \* per tsconfig: createTypeCheckerContext calls since the last clear
  enumLookups,               \* per name: resolveEnumType calls since the last clear
  lastEntry,                 \* the last parseRouterFromFile call: arguments and outcome
  lastRef,                   \* the last router reference parseRouterObject resolved
  requests,                  \* getTypeCheckerContext requests served so far
  lastRequest,               \* the last getTypeCheckerContext request and its outcome
  anaIn, anaOut,             \* analyzeProcedureChain: argument and result
  schIn, schOut,             \* resolveSchemaText: argument and result
  resolverCalls,             \* calls made to the module resolver so far
  lastLookup,                \* the last getTsConfigPaths call and its outcome
  lastImport,                \* the last resolveImport call and its outcome
  lastFile,                  \* the last resolveFile call and its outcome
  disc,                      \* discoverAppRouterTrees in progress: position and trees
  webview,                   \* TrpcWebviewProvider and the view it posts to
  treeView,                  \* TrpcTreeProvider and what getChildren gave
  flights                    \* the discoveries of overlapping refresh calls

vars == << fs, tsConfigPathsCache, enumResolutionCache, nearestTsConfigPathCache,
           typeCheckerContextCache, visited, stack, results, expansions,
           constructions, enumLookups, lastEntry, lastRef, requests, lastRequest,
           anaIn, anaOut, schIn, schOut, resolverCalls, lastLookup, lastImport,
           lastFile, disc, webview, treeView, flights >>

resolverVars == << resolverCalls, lastLookup, lastImport, lastFile >>

explorerVars == << disc, webview, treeView, flights >>

-----------------------------------------------------------------------------
(* Bounds of the model. *)

MaxBuilds == 3      \* top-level builds in one run
MaxStack == 8       \* frames a build may stack up
MaxRequests == 4    \* getTypeCheckerContext requests in one run
MaxChain == 7       \* longest alias chain handed to resolveSchemaText
MaxResolverCalls == 2  \* calls to the module resolver in one run
MaxShows == 2       \* sendTree and getChildren calls in one run

-----------------------------------------------------------------------------
(* Values. *)

Undef == << >>
NoPath == << << >> >>
Root == << >>

Range(s) == { s[i] : i \in 1..Len(s) }

EmptyMap == [x \in {} |-> x]

MapSet(m, k, v) == [x \in DOMAIN m \cup {k} |-> IF x = k THEN v ELSE m[x]]

\* F applied to the value of x, with x evaluated once
Bind(x, F(_)) == CHOOSE y \in { F(v) : v \in { x } } : TRUE

-----------------------------------------------------------------------------
(* Paths (node's path module, on segment sequences). *)

dirname(p) == IF p = Root THEN Root ELSE SubSeq(p, 1, Len(p) - 1)

join(p, seg) == Append(p, seg)

\* `${base}${ext}`
withExt(p, ext) ==
  IF p = Root THEN << <<"", ext>> >>
  ELSE [p EXCEPT ![Len(p)] = Append(p[Len(p)], ext)]

RECURSIVE resolvePath(_, _)
\* path.resolve(from, segs): "." stays, ".." climbs, a name descends
resolvePath(from, segs) ==
  IF segs = << >> THEN from
  ELSE LET s == Head(segs) IN
       IF s = <<".">> THEN resolvePath(from, Tail(segs))
       ELSE IF s = <<"..">> THEN resolvePath(dirname(from), Tail(segs))
       ELSE resolvePath(Append(from, s), Tail(segs))

TsConfigName == <<"tsconfig", ".json">>

-----------------------------------------------------------------------------
(* File system probes. *)

existsSync(p) == p \in DOMAIN fs.files \/ p \in fs.dirs

isFile(p) == p \in DOMAIN fs.files

\* first element of a sequence satisfying a test, as an index (0: none)
FirstIndex(s, Test(_)) ==
  IF \E i \in 1..Len(s) : Test(s[i])
  THEN CHOOSE i \in 1..Len(s) : Test(s[i]) /\ \A j \in 1..(i - 1) : ~Test(s[j])
  ELSE 0

\* a faulty variant: the index files are tried before the extensions
resolveFileCandidatesIndexFirst(base) ==
  << base,
     join(base, <<"index", ".ts">>),
     join(base, <<"index", ".tsx">>),
     withExt(base, ".ts"),
     withExt(base, ".tsx") >>

resolveFileCandidates(base) ==
  << base,
     withExt(base, ".ts"),
     withExt(base, ".tsx"),
     join(base, <<"index", ".ts">>),
     join(base, <<"index", ".tsx">>) >>

resolveFile(base) ==
  LET Ok(c) == existsSync(c) /\ isFile(c) IN
  Bind(resolveFileCandidates(base), LAMBDA candidates :
    Bind(FirstIndex(candidates, Ok), LAMBDA i :
      IF i = 0 THEN NoPath ELSE candidates[i]))

-----------------------------------------------------------------------------
(* tsconfig path mappings (parser.ts). *)

NoTsConfigPaths == [found |-> FALSE, paths |-> << >>, baseUrl |-> Root]

\* what reading and parsing `dir/tsconfig.json` yields (lines 215-236)
readTsConfigPaths(dir) ==
  LET p == join(dir, TsConfigName) IN
  IF ~isFile(p) THEN NoTsConfigPaths                \* readFileSync throws, caught
  ELSE LET cfg == fs.files[p] IN
       IF ~cfg.jsonOk THEN NoTsConfigPaths          \* JSON.parse throws, caught
       ELSE IF ~cfg.hasPaths THEN NoTsConfigPaths
       ELSE [found |-> TRUE, paths |-> cfg.paths,
             baseUrl |-> resolvePath(dir, cfg.baseUrl)]

\* a faulty variant: only a configuration with a path-mapping table stops the walk
stopsWalkOnMapping(dir) == readTsConfigPaths(dir).found

\* line 214: the directory holds a tsconfig.json
stopsWalk(dir) == existsSync(join(dir, TsConfigName))

\* a faulty variant: nothing is stored
memoizeNothing(cache, dir, res) == cache

\* tsConfigPathsCache.set(dir, result) (lines 227, 235, 242)
memoize(cache, dir, res) == MapSet(cache, dir, res)

RECURSIVE getTsConfigPathsWalk(_, _)
\* the while loop of getTsConfigPaths; returns the result and the cache
getTsConfigPathsWalk(dir, cache) ==
  IF dir = Root
  THEN [r |-> NoTsConfigPaths, cache |-> memoize(cache, dir, NoTsConfigPaths)]
  ELSE IF dir \in DOMAIN cache
  THEN [r |-> cache[dir], cache |-> cache]
  ELSE IF stopsWalk(dir)
  THEN Bind(readTsConfigPaths(dir), LAMBDA res :
         [r |-> res, cache |-> memoize(cache, dir, res)])
  ELSE getTsConfigPathsWalk(dirname(dir), cache)

RECURSIVE getTsConfigPathsWalked(_, _)
\* the directories the loop body of lines 208-240 runs for, in order
getTsConfigPathsWalked(dir, cache) ==
  IF dir = Root THEN << >>
  ELSE IF dir \in DOMAIN cache THEN << dir >>
  ELSE IF stopsWalk(dir) THEN << dir >>
  ELSE << dir >> \o getTsConfigPathsWalked(dirname(dir), cache)

getTsConfigPaths(fromFilePath, cache) ==
  Bind(dirname(fromFilePath), LAMBDA dir : getTsConfigPathsWalk(dir, cache))

\* a faulty variant: no specifier starts with the prefix
IsSegPrefixNever(pre, segs) == FALSE

\* specifier.startsWith(prefixStr), on whole segments
IsSegPrefix(pre, segs) ==
  /\ Len(pre) <= Len(segs)
  /\ SubSeq(segs, 1, Len(pre)) = pre

patternMatches(pattern, specifier) ==
  /\ IsSegPrefix(pattern.pre, specifier.segs)
  /\ pattern.wild => Len(specifier.segs) > Len(pattern.pre)

RECURSIVE firstResolved(_, _, _)
\* the inner loop over one pattern's mappings (lines 172-178)
firstResolved(mappings, rest, baseUrl) ==
  IF mappings = << >> THEN NoPath
  ELSE Bind(resolvePath(baseUrl, Head(mappings) \o rest), LAMBDA mappedPath :
         Bind(resolveFile(mappedPath), LAMBDA resolved :
           IF resolved # NoPath THEN resolved
           ELSE firstResolved(Tail(mappings), rest, baseUrl)))

RECURSIVE resolveThroughPaths(_, _, _)
\* the outer loop over Object.entries(paths) (lines 165-179)
resolveThroughPaths(paths, specifier, baseUrl) ==
  IF paths = << >> THEN NoPath
  ELSE LET pat == Head(paths) IN
       IF ~patternMatches(pat, specifier)
       THEN resolveThroughPaths(Tail(paths), specifier, baseUrl)
       ELSE Bind(SubSeq(specifier.segs, Len(pat.pre) + 1, Len(specifier.segs)),
                 LAMBDA rest :
              Bind(firstResolved(pat.subs, rest, baseUrl), LAMBDA resolved :
                IF resolved # NoPath THEN resolved
                ELSE resolveThroughPaths(Tail(paths), specifier, baseUrl)))

\* returns the resolved file (or NoPath) and the path-mapping cache
resolveImport(specifier, fromFilePath, cache) ==
  IF specifier.rel
  THEN Bind(resolvePath(dirname(fromFilePath), specifier.segs), LAMBDA base :
         [r |-> resolveFile(base), cache |-> cache])
  ELSE Bind(getTsConfigPaths(fromFilePath, cache), LAMBDA t :
         IF ~t.r.found THEN [r |-> NoPath, cache |-> t.cache]
         ELSE [r |-> resolveThroughPaths(t.r.paths, specifier, t.r.baseUrl),
               cache |-> t.cache])

-----------------------------------------------------------------------------
(* Expressions and source files.                                           *)
(*                                                                         *)
(* A source file is what ts.createSourceFile returns for it: its import    *)
(* statements and its variable declarations in document order.  An         *)
(* expression is a record with field k:                                    *)
(*   "ident" name | "text" text | "call" callee name recv args ptype       *)
(*   | "obj" props | "fn" returns | "none" (no initializer) | "other"      *)
(* A call's callee is "prop" (recv.name(args)) or "ident" (name(args)).    *)

Ident(n) == [k |-> "ident", name |-> n]

Text(t) == [k |-> "text", text |-> t]

NoExpr == [k |-> "none"]

OtherExpr == [k |-> "other"]

ObjectLiteral(props) == [k |-> "obj", props |-> props]

NoProcType == [inputSchema |-> Undef, outputSchema |-> Undef]

MethodCall(recv, name, args, ptype) ==
  [k |-> "call", callee |-> "prop", name |-> name, recv |-> recv,
   args |-> args, ptype |-> ptype]

PlainCall(name, args) ==
  [k |-> "call", callee |-> "ident", name |-> name, recv |-> NoExpr,
   args |-> args, ptype |-> NoProcType]

RECURSIVE getText(_)
\* node.getText(), as tokens
getText(e) ==
  CASE e.k = "ident" -> << e.name >>
    [] e.k = "text" -> e.text
    [] e.k = "call" ->
         IF e.callee = "prop" THEN getText(e.recv) \o << ".", e.name, "()" >>
         ELSE << e.name, "()" >>
    [] e.k = "obj" -> << "{", "}" >>
    [] e.k = "fn" -> << "(", ")", "=>" >>
    [] OTHER -> << "1" >>

\* tokens that do not start an identifier
NonIdentTokens == { ".", "()", "(", ")", "=>", "{", "}", "[", "]", ":", ",", "1" }

\* getImports (parser.ts:117-152): a later binding of a name replaces an earlier
importBindings(stmt) ==
  (IF stmt.def # ""
   THEN << [local |-> stmt.def, moduleSpecifier |-> stmt.spec,
            importName |-> "default", isDefault |-> TRUE] >>
   ELSE << >>)
  \o [i \in 1..Len(stmt.named) |->
        [local |-> stmt.named[i].name, moduleSpecifier |-> stmt.spec,
         importName |-> IF stmt.named[i].prop = "" THEN stmt.named[i].name
                        ELSE stmt.named[i].prop,
         isDefault |-> FALSE]]

RECURSIVE allBindings(_)
allBindings(stmts) ==
  IF stmts = << >> THEN << >>
  ELSE importBindings(Head(stmts)) \o allBindings(Tail(stmts))

getImports(sourceFile) ==
  Bind(allBindings(sourceFile.imports), LAMBDA b :
    LET Last(n) == CHOOSE i \in 1..Len(b) :
                     /\ b[i].local = n
                     /\ \A j \in (i + 1)..Len(b) : b[j].local # n
    IN [n \in { b[i].local : i \in 1..Len(b) } |-> b[Last(n)]])

\* the first declaration of varName that has an initializer, as an index (0: none)
findDeclaration(sourceFile, varName) ==
  LET Hit(d) == d.name = varName /\ d.init.k # "none"
  IN FirstIndex(sourceFile.decls, Hit)

findVariableInitializer(sourceFile, varName) ==
  Bind(findDeclaration(sourceFile, varName), LAMBDA i :
    IF i = 0 THEN Undef ELSE getText(sourceFile.decls[i].init))

-----------------------------------------------------------------------------
(* Schema text resolver (parser.ts:259-349). *)

NoResolution == [found |-> FALSE, text |-> Undef, filePath |-> NoPath]

\* returns the resolution and the path-mapping cache
resolveIdentifierFull(name, filePath, cache) ==
  Bind(fs.files[filePath], LAMBDA sourceFile :
  Bind(getImports(sourceFile), LAMBDA imports :
  Bind(findVariableInitializer(sourceFile, name), LAMBDA localDef :
    IF localDef # Undef
    THEN [r |-> [found |-> TRUE, text |-> localDef, filePath |-> filePath],
          cache |-> cache]
    ELSE IF name \notin DOMAIN imports
    THEN [r |-> NoResolution, cache |-> cache]
    ELSE
      Bind(imports[name], LAMBDA importInfo :
      Bind(resolveImport(importInfo.moduleSpecifier, filePath, cache), LAMBDA ri :
        LET resolvedPath == ri.r IN
        IF resolvedPath = NoPath \/ ~existsSync(resolvedPath)
        THEN [r |-> NoResolution, cache |-> ri.cache]
        ELSE
          LET targetVar == IF importInfo.isDefault THEN name
                           ELSE importInfo.importName
          IN Bind(findVariableInitializer(fs.files[resolvedPath], targetVar),
                  LAMBDA definition :
               IF definition = Undef
               THEN [r |-> NoResolution, cache |-> ri.cache]
               ELSE [r |-> [found |-> TRUE, text |-> definition,
                            filePath |-> resolvedPath],
                     cache |-> ri.cache]))))))

startsWithZDot(t) == Len(t) >= 2 /\ t[1] = "z" /\ t[2] = "."

startsWithBrace(t) == Len(t) >= 1 /\ t[1] = "{"

DepthCap == 5

\* a faulty variant: the guard lets one more level through
depthExceededLate(depth) == depth > DepthCap + 1

\* the guard of line 267
depthExceeded(depth) == depth > DepthCap

RECURSIVE resolveSchemaText(_, _, _, _)
\* a faulty variant: the next identifier is looked up where the text came from
resolutionContextKept(filePath, resolved) == filePath

\* lines 299-305: the file whose declarations and imports the recursion uses
resolutionContext(filePath, resolved) == resolved.filePath

\* returns the text, the path-mapping cache and the number of
\* resolveIdentifierFull calls made.  Texts come from getText(), which
\* carries no surrounding white space, so trim() leaves them as they are.
resolveSchemaText(schemaText, filePath, depth, cache) ==
  IF depthExceeded(depth)
  THEN [text |-> schemaText, cache |-> cache, n |-> 0]
  ELSE IF startsWithZDot(schemaText) \/ startsWithBrace(schemaText)
  THEN [text |-> schemaText, cache |-> cache, n |-> 0]
  ELSE IF schemaText = << >> \/ Head(schemaText) \in NonIdentTokens
  THEN [text |-> schemaText, cache |-> cache, n |-> 0]
  ELSE
    LET identifier == Head(schemaText)
        suffix == Tail(schemaText)
    IN
    Bind(resolveIdentifierFull(identifier, filePath, cache), LAMBDA res :
      IF ~res.r.found
      THEN [text |-> schemaText, cache |-> res.cache, n |-> 1]
      ELSE
        Bind(res.r.text \o suffix, LAMBDA substituted :
          IF startsWithZDot(substituted)
          THEN [text |-> substituted, cache |-> res.cache, n |-> 1]
          ELSE Bind(resolveSchemaText(substituted,
                                      resolutionContext(filePath, res.r),
                                      depth + 1, res.cache),
                    LAMBDA rec :
                 [text |-> rec.text, cache |-> rec.cache, n |-> rec.n + 1])))

-----------------------------------------------------------------------------
(* Type-checker contexts (parserProcedureAnalysis.ts:937-1053).            *)
(*                                                                         *)
(* The caches travel as one record c with the fields                       *)
(*   paths (tsConfigPathsCache), near (nearestTsConfigPathCache),          *)
(*   ctx (typeCheckerContextCache), enum (enumResolutionCache),            *)
(*   made (constructions), looked (enumLookups).                           *)

NoContext == [ok |-> FALSE, rootNames |-> << >>, files |-> {}]

RECURSIVE findNearestTsConfigWalk(_, _, _)
\* the loop of findNearestTsConfigFile; returns the path and the cache
findNearestTsConfigWalk(dir, initialDir, near) ==
  IF dir \in DOMAIN near
  THEN [r |-> near[dir], near |-> near]
  ELSE IF existsSync(join(dir, TsConfigName))
  THEN Bind(join(dir, TsConfigName), LAMBDA tsConfigPath :
         [r |-> tsConfigPath, near |-> MapSet(near, dir, tsConfigPath)])
  ELSE IF dir = Root
  THEN [r |-> NoPath, near |-> MapSet(near, initialDir, NoPath)]
  ELSE findNearestTsConfigWalk(dirname(dir), initialDir, near)

findNearestTsConfigFile(fromFilePath, near) ==
  Bind(dirname(fromFilePath), LAMBDA initialDir :
    findNearestTsConfigWalk(initialDir, initialDir, near))

\* the compiler's own module resolution under one configuration
programImport(specifier, fromFilePath, cfg, cfgDir) ==
  IF specifier.rel
  THEN Bind(resolvePath(dirname(fromFilePath), specifier.segs), LAMBDA base :
         resolveFile(base))
  ELSE IF cfg.hasPaths
  THEN Bind(resolvePath(cfgDir, cfg.baseUrl), LAMBDA baseUrl :
         resolveThroughPaths(cfg.paths, specifier, baseUrl))
  ELSE NoPath

isSourceFile(p) == isFile(p) /\ fs.files[p].kind = "ts"

RECURSIVE programClosure(_, _, _)
\* the files ts.createProgram loads: the root names and what they import
programClosure(S, cfg, cfgDir) ==
  LET imported(f) ==
        { programImport(fs.files[f].imports[i].spec, f, cfg, cfgDir) :
            i \in 1..Len(fs.files[f].imports) }
  IN Bind(S \cup { g \in UNION { imported(f) : f \in S } : isSourceFile(g) },
          LAMBDA next :
       IF next = S THEN S ELSE programClosure(next, cfg, cfgDir))

createTypeCheckerContext(tsConfigPath, targetFilePath) ==
  IF ~isFile(tsConfigPath) \/ ~fs.files[tsConfigPath].tsOk
  THEN NoContext                                         \* config.error
  ELSE
    Bind(fs.files[tsConfigPath], LAMBDA cfg :
    Bind(IF targetFilePath \in Range(cfg.fileNames)
         THEN cfg.fileNames
         ELSE Append(cfg.fileNames, targetFilePath), LAMBDA rootNames :
    Bind({ f \in Range(rootNames) : isSourceFile(f) }, LAMBDA roots :
    Bind(dirname(tsConfigPath), LAMBDA cfgDir :
      [ok |-> TRUE, rootNames |-> rootNames,
       files |-> programClosure(roots, cfg, cfgDir)]))))

\* a faulty variant: only a context that was built is stored
storesContextWhenBuilt(context) == context.ok

\* whether a context is stored under tsConfigPath after it was built (line 956)
storesContext(context) == TRUE

\* returns the context and the caches
getTypeCheckerContext(filePath, c) ==
  Bind(findNearestTsConfigFile(filePath, c.near), LAMBDA n :
  Bind(n.r, LAMBDA tsConfigPath :
  Bind([c EXCEPT !.near = n.near], LAMBDA c1 :
    IF tsConfigPath = NoPath THEN [r |-> NoContext, c |-> c1]
    ELSE IF tsConfigPath \in DOMAIN c1.ctx
    THEN [r |-> c1.ctx[tsConfigPath], c |-> c1]
    ELSE
      Bind(createTypeCheckerContext(tsConfigPath, filePath), LAMBDA context :
        LET count == IF tsConfigPath \in DOMAIN c1.made
                     THEN c1.made[tsConfigPath] ELSE 0
        IN [r |-> context,
            c |-> [c1 EXCEPT
                     !.ctx = IF storesContext(context)
                             THEN MapSet(c1.ctx, tsConfigPath, context)
                             ELSE c1.ctx,
                     !.made = MapSet(c1.made, tsConfigPath, count + 1)]]))))

getProgramSourceFile(context, filePath) == filePath \in context.files

\* a faulty variant: the path mappings are dropped as well
clearEveryCache(c) ==
  [c EXCEPT !.paths = EmptyMap, !.enum = EmptyMap, !.near = EmptyMap,
            !.ctx = EmptyMap, !.made = EmptyMap, !.looked = EmptyMap]

\* clearProcedureAnalysisCaches, on the cache record
clearProcedureAnalysisCaches(c) ==
  [c EXCEPT !.enum = EmptyMap, !.near = EmptyMap, !.ctx = EmptyMap,
            !.made = EmptyMap, !.looked = EmptyMap]

-----------------------------------------------------------------------------
(* Enum aliases (parserProcedureAnalysis.ts:474-558). *)

BuiltinTypeNames ==
  { "Date", "Map", "Set", "Array", "Promise", "RegExp", "Error", "Buffer",
    "String", "Number", "Boolean", "Object", "Symbol", "BigInt" }

\* capitalized identifiers of the vocabulary
CapitalizedTokens == { "Role", "Status", "User" } \cup BuiltinTypeNames

\* resolveEnumType: the string-literal union an exported name of the
\* program stands for, Undef when none does
resolveEnumType(enumName, context) ==
  Bind({ f \in context.files : enumName \in DOMAIN fs.files[f].enums },
       LAMBDA declaring :
    IF declaring = {} THEN Undef
    ELSE fs.files[CHOOSE f \in declaring : TRUE].enums[enumName])

\* a token the regular expression of line 480 matches at position i
isEnumReference(text, i) ==
  /\ text[i] \in CapitalizedTokens
  /\ i > 1 /\ text[i - 1] = ":"
  /\ i < Len(text) => text[i + 1] \notin { "<", "(", "{", "." }

\* a cache test that overlooks the failed lookups the cache holds
enumCacheHasResolved(enum, enumName) ==
  enumName \in DOMAIN enum /\ enum[enumName] # Undef

\* enumResolutionCache.has(cacheKey): a failed lookup is an entry too
enumCacheHas(enum, enumName) == enumName \in DOMAIN enum

RECURSIVE resolveEnumAliasesFrom(_, _, _, _)
\* the replace callback, match after match from position i; c.looked counts
\* the resolveEnumType calls it makes
resolveEnumAliasesFrom(text, i, context, c) ==
  IF i > Len(text) THEN [text |-> << >>, c |-> c]
  ELSE IF ~isEnumReference(text, i) \/ text[i] \in BuiltinTypeNames
  THEN Bind(resolveEnumAliasesFrom(text, i + 1, context, c), LAMBDA rest :
         [text |-> << text[i] >> \o rest.text, c |-> rest.c])
  ELSE IF enumCacheHas(c.enum, text[i])
  THEN Bind(resolveEnumAliasesFrom(text, i + 1, context, c), LAMBDA rest :
         LET hit == c.enum[text[i]]
         IN [text |-> (IF hit = Undef THEN << text[i] >> ELSE hit) \o rest.text,
             c |-> rest.c])
  ELSE Bind(resolveEnumType(text[i], context), LAMBDA resolved :
       Bind([c EXCEPT !.enum = MapSet(c.enum, text[i], resolved),
                      !.looked = MapSet(c.looked, text[i],
                                        (IF text[i] \in DOMAIN c.looked
                                         THEN c.looked[text[i]] ELSE 0) + 1)],
            LAMBDA memo :
       Bind(resolveEnumAliasesFrom(text, i + 1, context, memo), LAMBDA rest :
         [text |-> (IF resolved = Undef THEN << text[i] >> ELSE resolved)
                   \o rest.text,
          c |-> rest.c])))

resolveEnumAliasesInText(text, context, c) ==
  Bind(text, LAMBDA t : resolveEnumAliasesFrom(t, 1, context, c))

-----------------------------------------------------------------------------
(* Structural inference (parserProcedureAnalysis.ts:451-472, 599-756,      *)
(* 1055-1106).  A return expression is a record with field k:              *)
(*   "wrap" inner (parentheses, as, satisfies, !) | "access" onInput name  *)
(*   | "str" | "num" | "bool" | "null" | "undefined" | "newDate"           *)
(*   | "array" elements | "objlit" props | "cond" whenTrue whenFalse       *)
(*   | anything else.                                                      *)

RECURSIVE splitUnion(_)
\* compact.split("|")
splitUnion(text) ==
  LET Bar(t) == t = "|" IN
  Bind(FirstIndex(text, Bar), LAMBDA i :
    IF i = 0 THEN << text >>
    ELSE Bind(SubSeq(text, i + 1, Len(text)), LAMBDA rest :
           << SubSeq(text, 1, i - 1) >> \o splitUnion(rest)))

NonInformativeParts ==
  { << "any" >>, << "any", "[]" >>, << "unknown" >>, << "unknown", "[]" >>,
    << "{", "[key: string]: unknown;", "}" >>,
    << "{", "[key: string]: unknown", "}" >> }

isNonInformativeInferredType(typeText) ==
  \/ typeText = << >>
  \/ Bind(splitUnion(typeText), LAMBDA parts :
        \A part \in Range(parts) : part \in NonInformativeParts)

RECURSIVE dedup(_)
\* Array.from(new Set(xs)): first occurrences, in order
dedup(xs) ==
  IF xs = << >> THEN << >>
  ELSE Bind(SubSeq(xs, 1, Len(xs) - 1), LAMBDA front :
       Bind(dedup(front), LAMBDA init :
         LET x == xs[Len(xs)]
         IN IF x \in Range(init) THEN init ELSE Append(init, x)))

RECURSIVE joinUnion(_)
\* xs.join(" | ")
joinUnion(xs) ==
  IF xs = << >> THEN << >>
  ELSE IF Len(xs) = 1 THEN xs[1]
  ELSE Bind(Tail(xs), LAMBDA rest : xs[1] \o << "|" >> \o joinUnion(rest))

PrimitiveMap(p) ==
  CASE p = "string" -> "string" [] p = "number" -> "number"
    [] p = "boolean" -> "boolean" [] p = "date" -> "Date"
    [] p = "bigint" -> "bigint" [] p = "unknown" -> "unknown"
    [] p = "any" -> "any" [] p = "null" -> "null"
    [] OTHER -> "undefined"

ZodPrimitives ==
  { "string", "number", "boolean", "date", "bigint", "unknown", "any",
    "null", "undefined" }

\* positions where `field : z . <primitive> (` starts
fieldBaseMatches(t, fieldName) ==
  { i \in 1..Len(t) :
      /\ i + 5 <= Len(t)
      /\ t[i] = fieldName /\ t[i + 1] = ":" /\ t[i + 2] = "z" /\ t[i + 3] = "."
      /\ t[i + 4] \in ZodPrimitives /\ t[i + 5] = "(" }

\* `field [\s\S]*? . <suffix> (` matches somewhere
fieldSuffixMatches(t, fieldName, suffix) ==
  \E i \in 1..Len(t) : \E j \in (i + 1)..Len(t) :
    /\ t[i] = fieldName
    /\ j + 2 <= Len(t)
    /\ t[j] = "." /\ t[j + 1] = suffix /\ t[j + 2] = "("

guessInputFieldTypeFromSchema(inputSchema, fieldName) ==
  IF inputSchema = Undef THEN Undef
  ELSE Bind(fieldBaseMatches(inputSchema, fieldName), LAMBDA hits :
         IF hits = {} THEN Undef
         ELSE Bind(CHOOSE x \in hits : \A y \in hits : x <= y, LAMBDA i :
              Bind(PrimitiveMap(inputSchema[i + 4]), LAMBDA primitive :
                IF fieldSuffixMatches(inputSchema, fieldName, "optional")
                THEN << primitive, "|", "undefined" >>
                ELSE IF fieldSuffixMatches(inputSchema, fieldName, "nullable")
                THEN << primitive, "|", "null" >>
                ELSE << primitive >>)))

RECURSIVE inferTypeFromExpression(_, _)
RECURSIVE inferElementTypes(_, _)
RECURSIVE inferFieldTypes(_, _)

inferTypeFromExpression(expr, inputSchema) ==
  CASE expr.k = "wrap" -> inferTypeFromExpression(expr.inner, inputSchema)
    [] expr.k = "access" ->
         Bind(IF expr.onInput
              THEN guessInputFieldTypeFromSchema(inputSchema, expr.name)
              ELSE Undef, LAMBDA guessed :
           IF guessed # Undef THEN guessed ELSE << "unknown" >>)
    [] expr.k = "str" -> << "string" >>
    [] expr.k = "num" -> << "number" >>
    [] expr.k = "bool" -> << "boolean" >>
    [] expr.k = "null" -> << "null" >>
    [] expr.k = "undefined" -> << "undefined" >>
    [] expr.k = "newDate" -> << "Date" >>
    [] expr.k = "array" ->
         Bind(inferElementTypes(expr.elements, inputSchema), LAMBDA itemTypes :
           IF expr.elements = << >> \/ itemTypes = << >>
           THEN << "unknown", "[]" >>
           ELSE Bind(dedup(itemTypes), LAMBDA unique :
                  joinUnion(unique) \o << "[]" >>))
    [] expr.k = "objlit" ->
         IF expr.props = << >> THEN << "{", "}" >>
         ELSE LET hasSpread ==
                    \E i \in 1..Len(expr.props) : expr.props[i].pk = "spread"
              IN Bind(inferFieldTypes(expr.props, inputSchema)
                      \o (IF hasSpread THEN << "[key: string]: unknown;" >>
                          ELSE << >>), LAMBDA fields :
                   IF fields = << >> THEN << "{", "[key: string]: unknown;", "}" >>
                   ELSE << "{" >> \o fields \o << "}" >>)
    [] expr.k = "cond" ->
         Bind(inferTypeFromExpression(expr.whenTrue, inputSchema), LAMBDA whenTrue :
         Bind(inferTypeFromExpression(expr.whenFalse, inputSchema), LAMBDA whenFalse :
           IF whenTrue = whenFalse THEN whenTrue
           ELSE whenTrue \o << "|" >> \o whenFalse))
    [] OTHER -> << "unknown" >>

\* the types of the elements that are not spread elements
inferElementTypes(elements, inputSchema) ==
  IF elements = << >> THEN << >>
  ELSE Bind(Tail(elements), LAMBDA rest :
         (IF Head(elements).spread THEN << >>
          ELSE << inferTypeFromExpression(Head(elements).e, inputSchema) >>)
         \o inferElementTypes(rest, inputSchema))

\* the `key: type;` fields of an object literal, concatenated
inferFieldTypes(props, inputSchema) ==
  IF props = << >> THEN << >>
  ELSE LET p == Head(props)
           field ==
             CASE p.pk = "assign" ->
                    << p.name, ":" >> \o inferTypeFromExpression(p.value, inputSchema)
                    \o << ";" >>
               [] p.pk = "shorthand" -> << p.name, ":", "unknown", ";" >>
               [] p.pk = "method" -> << p.name, ":", "(...args: unknown[]) => unknown", ";" >>
               [] OTHER -> << >>
       IN Bind(Tail(props), LAMBDA rest :
            field \o inferFieldTypes(rest, inputSchema))

-----------------------------------------------------------------------------
(* Procedure analysis (parserProcedureAnalysis.ts:22-200, 758-791, 1121-1138). *)

ProcedureMethods == { "query", "mutation", "subscription" }

RECURSIVE findMethodInChain(_, _)
findMethodInChain(node, methodName) ==
  IF node.k # "call" THEN Undef
  ELSE IF node.callee = "prop"
  THEN IF node.name = methodName /\ Len(node.args) > 0
       THEN getText(node.args[1])
       ELSE findMethodInChain(node.recv, methodName)
  ELSE Undef

\* returns the rendered type (Undef: none) and the caches
inferTypeFromTypeChecker(ret, filePath, c) ==
  Bind(getTypeCheckerContext(filePath, c), LAMBDA g :
    IF ~g.r.ok THEN [r |-> Undef, c |-> g.c]
    ELSE IF ~getProgramSourceFile(g.r, filePath) THEN [r |-> Undef, c |-> g.c]
    ELSE IF ret.ctype = Undef THEN [r |-> Undef, c |-> g.c]
    ELSE Bind(resolveEnumAliasesInText(ret.ctype, g.r, g.c), LAMBDA e :
           [r |-> e.text, c |-> e.c]))

RECURSIVE inferReturnTypes(_, _, _, _)
\* the loop of lines 121-129: the informative types, in order, and the caches
inferReturnTypes(returns, filePath, inputSchema, c) ==
  IF returns = << >> THEN [r |-> << >>, c |-> c]
  ELSE
    Bind(Head(returns), LAMBDA ret :
    Bind(inferTypeFromExpression(ret.e, inputSchema), LAMBDA structural :
    Bind(IF isNonInformativeInferredType(structural)
         THEN inferTypeFromTypeChecker(ret, filePath, c)
         ELSE [r |-> structural, c |-> c], LAMBDA viaChecker :
    Bind(Tail(returns), LAMBDA others :
    Bind(inferReturnTypes(others, filePath, inputSchema, viaChecker.c), LAMBDA rest :
      [r |-> (IF viaChecker.r # Undef /\ ~isNonInformativeInferredType(viaChecker.r)
              THEN << viaChecker.r >> ELSE << >>) \o rest.r,
       c |-> rest.c])))))

inferOutputSchemaFromResolver(node, filePath, inputSchema, c) ==
  IF Len(node.args) = 0 THEN [r |-> Undef, c |-> c]
  ELSE IF node.args[1].k # "fn" THEN [r |-> Undef, c |-> c]
  ELSE IF node.args[1].returns = << >> THEN [r |-> Undef, c |-> c]
  ELSE Bind(node.args[1].returns, LAMBDA returns :
       Bind(inferReturnTypes(returns, filePath, inputSchema, c), LAMBDA t :
         IF t.r = << >> THEN [r |-> Undef, c |-> t.c]
         ELSE Bind(dedup(t.r), LAMBDA unique :
                [r |-> joinUnion(unique), c |-> t.c])))

\* returns the input/output read from the procedure's own type and the caches
inferSchemasFromProcedureType(node, filePath, c) ==
  Bind(getTypeCheckerContext(filePath, c), LAMBDA g :
    IF ~g.r.ok THEN [r |-> NoProcType, c |-> g.c]
    ELSE IF ~getProgramSourceFile(g.r, filePath) THEN [r |-> NoProcType, c |-> g.c]
    ELSE IF node.ptype.inputSchema = Undef /\ node.ptype.outputSchema = Undef
    THEN [r |-> NoProcType, c |-> g.c]
    ELSE IF node.ptype.outputSchema = Undef
    THEN [r |-> node.ptype, c |-> g.c]
    ELSE Bind(resolveEnumAliasesInText(node.ptype.outputSchema, g.r, g.c),
              LAMBDA e :
           [r |-> [inputSchema |-> node.ptype.inputSchema, outputSchema |-> e.text],
            c |-> e.c]))

\* a faulty variant: the explicit flag is not consulted
procedureTypeInputWinsAlways(hasExplicitInput, schemas) ==
  /\ schemas.inputSchema # Undef
  /\ ~isNonInformativeInferredType(schemas.inputSchema)

\* the condition of lines 82-86
procedureTypeInputWins(hasExplicitInput, schemas) ==
  /\ ~hasExplicitInput
  /\ schemas.inputSchema # Undef
  /\ ~isNonInformativeInferredType(schemas.inputSchema)

\* the condition of lines 90-94
procedureTypeOutputWins(hasExplicitOutput, schemas) ==
  /\ ~hasExplicitOutput
  /\ schemas.outputSchema # Undef
  /\ ~isNonInformativeInferredType(schemas.outputSchema)

NoProcedure ==
  [isProc |-> FALSE, type |-> "", inputSchema |-> Undef, outputSchema |-> Undef]

\* returns the analysis result, the caches and, for the record, what
\* inferOutputSchemaFromResolver gave (Undef when it was not asked)
analyzeProcedureChain(node, filePath, c) ==
  IF node.k # "call" THEN [r |-> NoProcedure, c |-> c, inferred |-> Undef]
  ELSE IF node.callee # "prop" THEN [r |-> NoProcedure, c |-> c, inferred |-> Undef]
  ELSE IF node.name \notin ProcedureMethods
  THEN [r |-> NoProcedure, c |-> c, inferred |-> Undef]
  ELSE
    Bind(findMethodInChain(node.recv, "input"), LAMBDA explicitInput :
    Bind(findMethodInChain(node.recv, "output"), LAMBDA explicitOutput :
    Bind(explicitInput # Undef, LAMBDA hasExplicitInput :
    Bind(explicitOutput # Undef, LAMBDA hasExplicitOutput :
    Bind(IF hasExplicitInput
         THEN resolveSchemaText(explicitInput, filePath, 0, c.paths)
         ELSE [text |-> Undef, cache |-> c.paths, n |-> 0], LAMBDA ri :
    Bind(IF hasExplicitOutput
         THEN resolveSchemaText(explicitOutput, filePath, 0, ri.cache)
         ELSE [text |-> Undef, cache |-> ri.cache, n |-> 0], LAMBDA ro :
    Bind([c EXCEPT !.paths = ro.cache], LAMBDA c1 :
    Bind(IF ro.text = Undef
         THEN inferOutputSchemaFromResolver(node, filePath, ri.text, c1)
         ELSE [r |-> ro.text, c |-> c1], LAMBDA inferred :
    Bind(inferSchemasFromProcedureType(node, filePath, inferred.c), LAMBDA procType :
      [r |-> [isProc |-> TRUE, type |-> node.name,
              inputSchema |-> IF procedureTypeInputWins(hasExplicitInput, procType.r)
                              THEN procType.r.inputSchema ELSE ri.text,
              outputSchema |-> IF procedureTypeOutputWins(hasExplicitOutput, procType.r)
                               THEN procType.r.outputSchema ELSE inferred.r],
       c |-> procType.c, inferred |-> inferred.r])))))))))

-----------------------------------------------------------------------------
(* Router tree builder (parser.ts:57-115, 246-257, 407-611). *)

RouterNode(name, filePath, line) ==
  [name |-> name, type |-> "router", children |-> << >>, filePath |-> filePath,
   line |-> line, inputSchema |-> Undef, outputSchema |-> Undef]

\* a faulty variant: the leaf carries a child
ProcedureNodeWithChild(name, proc, filePath, line) ==
  [name |-> name, type |-> proc.type,
   children |-> << RouterNode(name, filePath, line) >>, filePath |-> filePath,
   line |-> line, inputSchema |-> proc.inputSchema,
   outputSchema |-> proc.outputSchema]

ProcedureNode(name, proc, filePath, line) ==
  [name |-> name, type |-> proc.type, children |-> << >>, filePath |-> filePath,
   line |-> line, inputSchema |-> proc.inputSchema,
   outputSchema |-> proc.outputSchema]

isRouterCall(call) ==
  IF call.callee = "prop" THEN call.name = "router"
  ELSE call.name \in { "router", "createTRPCRouter" }

\* a faulty variant: one set shared by all top-level calls
sharedVisited == visited

\* the set a top-level call starts from: the default `new Set()` of line 60
newVisited == {}

\* a faulty variant: the key is not recorded
visitedAddForgotten(vis, key) == vis

\* line 75
visitedAdd(vis, key) == vis \cup { key }

\* a faulty variant: the guard never fires
alreadyVisitedNever(vis, key) == FALSE

\* line 67
alreadyVisited(vis, key) == key \in vis

\* a faulty variant: every invocation counts as the first
isFirstInvocationAlways(vis) == TRUE

\* line 62
isFirstInvocation(vis) == Cardinality(vis) = 0

\* a faulty variant: the key is recorded before the two checks
parseRouterFromFileEntryAddsFirst(filePath, routerVarName, vis) ==
  LET key == << filePath, routerVarName >> IN
  [clears |-> isFirstInvocation(vis),
   isNull |-> alreadyVisited(vis, key) \/ ~existsSync(filePath),
   visited |-> visitedAdd(vis, key)]

\* a faulty variant: a variable the file does not declare gives null
parseRouterFromFileEntryDeclared(filePath, routerVarName, vis) ==
  LET key == << filePath, routerVarName >>
      returnsNull == \/ alreadyVisited(vis, key)
                     \/ ~existsSync(filePath)
                     \/ /\ filePath \in DOMAIN fs.files
                        /\ findDeclaration(fs.files[filePath], routerVarName) = 0
  IN [clears |-> isFirstInvocation(vis),
      isNull |-> returnsNull,
      visited |-> IF returnsNull THEN vis ELSE visitedAdd(vis, key)]

\* lines 62-75: whether the caches are cleared, whether null is returned,
\* and the visited set afterwards
parseRouterFromFileEntry(filePath, routerVarName, vis) ==
  LET key == << filePath, routerVarName >>
      returnsNull == alreadyVisited(vis, key) \/ ~existsSync(filePath)
  IN [clears |-> isFirstInvocation(vis),
      isNull |-> returnsNull,
      visited |-> IF returnsNull THEN vis ELSE visitedAdd(vis, key)]

RECURSIVE routerProperties(_, _)
\* lines 95-113: the properties of every router({...}) initializer of a
\* declaration named routerVarName, in document order
routerProperties(decls, routerVarName) ==
  IF decls = << >> THEN << >>
  ELSE LET d == Head(decls)
           here == IF /\ d.name = routerVarName
                      /\ d.init.k = "call"
                      /\ isRouterCall(d.init)
                      /\ Len(d.init.args) > 0
                      /\ d.init.args[1].k = "obj"
                   THEN d.init.args[1].props ELSE << >>
       IN Bind(Tail(decls), LAMBDA rest :
            here \o routerProperties(rest, routerVarName))

\* where resolveIdentifierAsRouter sends the call: the key and the cache
resolveIdentifierAsRouter(varName, currentFilePath, cache) ==
  Bind(getImports(fs.files[currentFilePath]), LAMBDA imports :
    IF varName \in DOMAIN imports
    THEN Bind(imports[varName], LAMBDA importInfo :
         Bind(resolveImport(importInfo.moduleSpecifier, currentFilePath, cache),
              LAMBDA ri :
           IF ri.r # NoPath
           THEN [filePath |-> ri.r,
                 varName |-> IF importInfo.isDefault THEN varName
                             ELSE importInfo.importName,
                 cache |-> ri.cache]
           ELSE [filePath |-> currentFilePath, varName |-> varName,
                 cache |-> ri.cache]))
    ELSE [filePath |-> currentFilePath, varName |-> varName, cache |-> cache])

NoProcedureResolution ==
  [isProc |-> FALSE, type |-> "", inputSchema |-> Undef, outputSchema |-> Undef,
   filePath |-> NoPath, line |-> 0]

withLocation(proc, filePath, line) ==
  [isProc |-> TRUE, type |-> proc.type, inputSchema |-> proc.inputSchema,
   outputSchema |-> proc.outputSchema, filePath |-> filePath, line |-> line]

\* a faulty variant: the import binding is not followed
resolveIdentifierAsProcedureLocally(varName, currentFilePath, c) ==
  Bind(fs.files[currentFilePath], LAMBDA sourceFile :
  Bind(findDeclaration(sourceFile, varName), LAMBDA li :
  Bind(IF li = 0 THEN [r |-> NoProcedure, c |-> c, inferred |-> Undef]
       ELSE Bind(sourceFile.decls[li].init, LAMBDA init :
              analyzeProcedureChain(init, currentFilePath, c)), LAMBDA localProc :
    IF localProc.r.isProc
    THEN [r |-> withLocation(localProc.r, currentFilePath, sourceFile.decls[li].line),
          c |-> localProc.c]
    ELSE [r |-> NoProcedureResolution, c |-> localProc.c])))

\* returns the procedure (isProc FALSE: null) and the caches
resolveIdentifierAsProcedure(varName, currentFilePath, c) ==
  Bind(fs.files[currentFilePath], LAMBDA sourceFile :
  Bind(getImports(sourceFile), LAMBDA imports :
  Bind(findDeclaration(sourceFile, varName), LAMBDA li :
  Bind(IF li = 0 THEN [r |-> NoProcedure, c |-> c, inferred |-> Undef]
       ELSE Bind(sourceFile.decls[li].init, LAMBDA init :
              analyzeProcedureChain(init, currentFilePath, c)), LAMBDA localProc :
    IF localProc.r.isProc
    THEN [r |-> withLocation(localProc.r, currentFilePath, sourceFile.decls[li].line),
          c |-> localProc.c]
    ELSE IF varName \notin DOMAIN imports
    THEN [r |-> NoProcedureResolution, c |-> localProc.c]
    ELSE
      Bind(imports[varName], LAMBDA importInfo :
      Bind(resolveImport(importInfo.moduleSpecifier, currentFilePath,
                         localProc.c.paths), LAMBDA ri :
      Bind([localProc.c EXCEPT !.paths = ri.cache], LAMBDA c1 :
        IF ri.r = NoPath \/ ~existsSync(ri.r)
        THEN [r |-> NoProcedureResolution, c |-> c1]
        ELSE
          Bind(fs.files[ri.r], LAMBDA importSf :
          Bind(IF importInfo.isDefault THEN varName ELSE importInfo.importName,
               LAMBDA targetVar :
          Bind(findDeclaration(importSf, targetVar), LAMBDA di :
            IF di = 0 THEN [r |-> NoProcedureResolution, c |-> c1]
            ELSE Bind(importSf.decls[di].init, LAMBDA init :
                 Bind(analyzeProcedureChain(init, ri.r, c1), LAMBDA importedProc :
                   IF ~importedProc.r.isProc
                   THEN [r |-> NoProcedureResolution, c |-> importedProc.c]
                   ELSE [r |-> withLocation(importedProc.r, ri.r,
                                            importSf.decls[di].line),
                         c |-> importedProc.c]))))))))))))

\* a faulty variant: an identifier that resolved to nothing adds no child
unresolvedIdentifierDropped(key, filePath, line) == << >>

\* lines 573-579, reached by an identifier that resolved to nothing
unresolvedIdentifierChildren(key, filePath, line) ==
  << RouterNode(key, filePath, line) >>

-----------------------------------------------------------------------------
(* The projects the builder runs on: /p/tsconfig.json maps "@lib/*" to     *)
(* "./lib/*"; /p/src/f1.ts declares the routers A and B, /p/lib/f2.ts the  *)
(* router C, /p/src/procs.ts a procedure that f1.ts imports by default.    *)
(* Which router mentions which, and in which form, varies.                 *)

DirP == << <<"p">> >>
DirSrc == << <<"p">>, <<"src">> >>
DirLib == << <<"p">>, <<"lib">> >>
F1 == << <<"p">>, <<"src">>, <<"f1", ".ts">> >>
F2 == << <<"p">>, <<"lib">>, <<"f2", ".ts">> >>
F3 == << <<"p">>, <<"src">>, <<"procs", ".ts">> >>
Gone == << <<"p">>, <<"src">>, <<"gone", ".ts">> >>
TsConfigP == << <<"p">>, <<"tsconfig", ".json">> >>

Relative(segs) == [rel |-> TRUE, segs |-> segs]
Bare(segs) == [rel |-> FALSE, segs |-> segs]

ImportNamed(spec, names) ==
  [spec |-> spec, def |-> "",
   named |-> [i \in 1..Len(names) |-> [name |-> names[i], prop |-> ""]]]

ImportDefault(spec, name) == [spec |-> spec, def |-> name, named |-> << >>]

SourceFile(imports, decls, enums) ==
  [kind |-> "ts", imports |-> imports, decls |-> decls, enums |-> enums]

Decl(name, init, line) == [name |-> name, init |-> init, line |-> line]

Assign(name, value, line) ==
  [pk |-> "assign", name |-> name, value |-> value, line |-> line]

Shorthand(name, line) ==
  [pk |-> "shorthand", name |-> name, value |-> NoExpr, line |-> line]

Spread(line) == [pk |-> "spread", name |-> "", value |-> NoExpr, line |-> line]

Fn(returns) == [k |-> "fn", returns |-> returns]

Returns(e, ctype) == [e |-> e, ctype |-> ctype]

TsConfig(ok, fileNames) ==
  [kind |-> "json", jsonOk |-> ok, tsOk |-> ok, hasPaths |-> TRUE,
   paths |-> << [pre |-> << <<"@lib">> >>, wild |-> TRUE,
                 subs |-> << << <<".">>, <<"lib">> >> >>] >>,
   baseUrl |-> << <<".">> >>, fileNames |-> fileNames]

RoleType == << "{", "role", ":", "Role", ";", "}" >>
RoleLiterals == << "\"ADMIN\"", "|", "\"USER\"" >>
\* a type that names Role, which the program declares, and twice Status,
\* which it does not
AuditedRoleType == << "{", "role", ":", "Role", ";", "was", ":", "Status", ";",
                     "now", ":", "Status", ";", "}" >>
UserInputText == << "z", ".", "object", "(", "{", "id", ":", "z", ".", "string",
                    "(", ")", "}", ")" >>

\* publicProcedure.query(() => "ok")
ListProcedure ==
  MethodCall(Ident("publicProcedure"), "query",
             << Fn(<< Returns([k |-> "str"], << "string" >>) >>) >>, NoProcType)

\* publicProcedure.input(UserInput).query(({ input }) => db.find(input))
GetUserProcedure ==
  MethodCall(MethodCall(Ident("publicProcedure"), "input",
                        << Text(<< "UserInput" >>) >>, NoProcType),
             "query", << Fn(<< Returns(OtherExpr, AuditedRoleType) >>) >>,
             NoProcType)

\* publicProcedure.mutation(save), typed by the framework's generics
RemoteProcedure ==
  MethodCall(Ident("publicProcedure"), "mutation", << Ident("save") >>,
             [inputSchema |-> << "{", "id", ":", "string", ";", "}" >>,
              outputSchema |-> RoleType])

Routers == { "A", "B", "C" }

Edges == { <<"A", "A">>, <<"A", "B">>, <<"A", "C">>,
           <<"B", "C">>, <<"C", "A">> }

RouterOrder == << "A", "B", "C" >>

PropertyNameFor(target) ==
  CASE target = "A" -> "toA" [] target = "B" -> "toB" [] OTHER -> "toC"

\* the properties of router `from` that mention other routers, in the
\* order A, B, C, written `b: B` ("assign") or `{ B }` ("shorthand")
referenceProperties(from, edges, style) ==
  LET targets == SelectSeq(RouterOrder, LAMBDA t : << from, t >> \in edges)
  IN [i \in 1..Len(targets) |->
        IF style = "assign"
        THEN Assign(PropertyNameFor(targets[i]), Ident(targets[i]), 10 + i)
        ELSE Shorthand(targets[i], 10 + i)]

BuildWorld(edges, style, configOk) ==
  [dirs |-> { Root, DirP, DirSrc, DirLib },
   files |->
     (F1 :> SourceFile(
              << ImportNamed(Bare(<< <<"@lib">>, <<"f2">> >>), << "C" >>),
                 ImportDefault(Relative(<< <<".">>, <<"procs">> >>), "remote") >>,
              << Decl("UserInput", Text(UserInputText), 1),
                 Decl("getUser", GetUserProcedure, 2),
                 Decl("A", PlainCall("router",
                        << ObjectLiteral(
                             << Assign("list", ListProcedure, 4),
                                Assign("rem", Ident("remote"), 5) >>
                             \o referenceProperties("A", edges, style)) >>), 3),
                 Decl("B", MethodCall(Ident("t"), "router",
                        << ObjectLiteral(
                             << Assign("user", Ident("getUser"), 21),
                                Assign("nested", PlainCall("router",
                                  << ObjectLiteral(<< Assign("ping", ListProcedure, 23) >>) >>),
                                  22) >>
                             \o referenceProperties("B", edges, style)) >>, NoProcType), 20) >>,
              EmptyMap))
     @@ (F2 :> SourceFile(
              << ImportNamed(Relative(<< <<"..">>, <<"src">>, <<"f1">> >>), << "A" >>) >>,
              << Decl("C", PlainCall("createTRPCRouter",
                        << ObjectLiteral(
                             << Assign("misc", OtherExpr, 2),
                                Spread(3),
                                Assign("ghost", Ident("Ghost"), 4),
                                Shorthand("Phantom", 5) >>
                             \o referenceProperties("C", edges, style)) >>), 1) >>,
              EmptyMap))
     @@ (F3 :> SourceFile(<< >>, << Decl("remote", RemoteProcedure, 1) >>,
                          ("Role" :> RoleLiterals)))
     @@ (TsConfigP :> TsConfig(configOk, << F1 >>))]

BuildWorlds ==
  { BuildWorld(edges, style, configOk) :
      edges \in SUBSET Edges, style \in { "assign", "shorthand" },
      configOk \in BOOLEAN }

\* the (file, variable) pairs discovery may hand to the builder
BuildInputs == { << F1, "A" >>, << F2, "C" >>, << Gone, "A" >> }

-----------------------------------------------------------------------------
(* The builder as a state machine.  A frame is one activation of           *)
(* parseRouterFromFile ("file") or of the parseRouterObject call of an     *)
(* inline router ("inline"): the node under construction and the           *)
(* properties still to walk.                                               *)

Caches ==
  [paths |-> tsConfigPathsCache, near |-> nearestTsConfigPathCache,
   ctx |-> typeCheckerContextCache, enum |-> enumResolutionCache,
   made |-> constructions, looked |-> enumLookups]

SetCaches(c) ==
  /\ tsConfigPathsCache' = c.paths
  /\ nearestTsConfigPathCache' = c.near
  /\ typeCheckerContextCache' = c.ctx
  /\ enumResolutionCache' = c.enum
  /\ constructions' = c.made
  /\ enumLookups' = c.looked

NoKey == << NoPath, "" >>

FileFrame(filePath, routerVarName, key) ==
  [node |-> RouterNode(routerVarName, filePath, 0),
   props |-> routerProperties(fs.files[filePath].decls, routerVarName),
   file |-> filePath, kind |-> "file", key |-> key,
   id |-> << filePath, routerVarName >>]

InlineFrame(node, props, filePath) ==
  [node |-> node, props |-> props, file |-> filePath, kind |-> "inline",
   key |-> node.name, id |-> NoKey]

NoEntry ==
  [valid |-> FALSE, nested |-> FALSE, key |-> NoKey, exists |-> FALSE,
   before |-> {}, after |-> {}, isNull |-> FALSE, pushed |-> FALSE,
   cleared |-> FALSE]

NoRef ==
  [valid |-> FALSE, target |-> NoKey, pk |-> "", name |-> "", file |-> NoPath,
   line |-> 0, wasVisited |-> FALSE, onStack |-> FALSE, pushed |-> FALSE,
   appended |-> << >>]

NoResult == [key |-> NoKey, isNull |-> TRUE, tree |-> RouterNode("", NoPath, 0)]

Building == stack # << >>

Top == stack[Len(stack)]

OnStack(key) == \E i \in 1..Len(stack) : stack[i].id = key

Count(m, k) == IF k \in DOMAIN m THEN m[k] ELSE 0

\* the top frame after its first property was walked and `added` appended
Advanced(added) ==
  [Top EXCEPT !.props = Tail(Top.props),
              !.node.children = Top.node.children \o added]

EntryRecord(key, e, nested, pushed) ==
  [valid |-> TRUE, nested |-> nested, key |-> key, exists |-> existsSync(key[1]),
   before |-> IF nested THEN visited ELSE newVisited, after |-> e.visited,
   isNull |-> e.isNull, pushed |-> pushed, cleared |-> e.clears]

\* a top-level parseRouterFromFile(filePath, routerVarName) call, up to the
\* walk of the first property
parseRouterFromFileCall(filePath, routerVarName) ==
  /\ ~Building
  /\ \E key \in { << filePath, routerVarName >> } :
     \E e \in { parseRouterFromFileEntry(filePath, routerVarName, newVisited) } :
     \E c \in { IF e.clears THEN clearProcedureAnalysisCaches(Caches) ELSE Caches } :
        /\ SetCaches(c)
        /\ visited' = e.visited
        /\ expansions' = IF e.isNull THEN EmptyMap ELSE (key :> 1)
        /\ stack' = IF e.isNull THEN << >>
                    ELSE << FileFrame(filePath, routerVarName, "") >>
        /\ results' = IF e.isNull
                      THEN Append(results, [NoResult EXCEPT !.key = key])
                      ELSE results
        /\ lastEntry' = EntryRecord(key, e, FALSE, ~e.isNull)
  /\ UNCHANGED resolverVars
  /\ UNCHANGED << fs, lastRef, requests, lastRequest, anaIn, anaOut, schIn, schOut >>

\* the call made on its own, by a caller this model leaves unnamed
StartBuild(filePath, routerVarName) ==
  /\ Len(results) < MaxBuilds
  /\ parseRouterFromFileCall(filePath, routerVarName)
  /\ UNCHANGED explorerVars

\* a nested parseRouterFromFile call made for property `prop` of the top
\* frame through resolveIdentifierAsRouter; c holds the caches so far
NestedCall(prop, target, c) ==
  \E key \in { << target.filePath, target.varName >> } :
  \E e \in { parseRouterFromFileEntry(target.filePath, target.varName, visited) } :
  \E c1 \in { [c EXCEPT !.paths = target.cache] } :
  \E c2 \in { IF e.clears THEN clearProcedureAnalysisCaches(c1) ELSE c1 } :
  \E added \in { IF e.isNull /\ prop.pk = "assign"
                 THEN unresolvedIdentifierChildren(prop.name, Top.file, prop.line)
                 ELSE << >> } :
  \E newStack \in { IF e.isNull
                    THEN [stack EXCEPT ![Len(stack)] = Advanced(added)]
                    ELSE Append([stack EXCEPT ![Len(stack)] = Advanced(<< >>)],
                                FileFrame(target.filePath, target.varName,
                                          prop.name)) } :
     /\ e.isNull \/ Len(stack) < MaxStack
     /\ SetCaches(c2)
     /\ visited' = e.visited
     /\ expansions' = IF e.isNull THEN expansions
                      ELSE MapSet(expansions, key, Count(expansions, key) + 1)
     /\ stack' = newStack
     /\ lastEntry' = EntryRecord(key, e, TRUE, Len(newStack) > Len(stack))
     /\ lastRef' = [valid |-> TRUE, target |-> key, pk |-> prop.pk,
                    name |-> prop.name, file |-> Top.file, line |-> prop.line,
                    wasVisited |-> key \in visited, onStack |-> OnStack(key),
                    pushed |-> Len(newStack) > Len(stack),
                    appended |-> SubSeq(newStack[Len(stack)].node.children,
                                        Len(Top.node.children) + 1,
                                        Len(newStack[Len(stack)].node.children))]

\* lines 493-511: the property's value is a procedure chain
StepProcedure ==
  /\ Building /\ Top.props # << >>
  /\ \E prop \in { Head(Top.props) } :
        /\ prop.pk = "assign"
        /\ \E a \in { analyzeProcedureChain(prop.value, Top.file, Caches) } :
             /\ a.r.isProc
             /\ SetCaches(a.c)
             /\ stack' = [stack EXCEPT ![Len(stack)] =
                            Advanced(<< ProcedureNode(prop.name, a.r, Top.file,
                                                      prop.line) >>)]
  /\ UNCHANGED << resolverVars, explorerVars >>
  /\ UNCHANGED << fs, visited, results, expansions, lastEntry, lastRef, requests,
                  lastRequest, anaIn, anaOut, schIn, schOut >>

\* lines 513-544 and 573-580: the property's value is a bare identifier
StepIdentifier ==
  /\ Building /\ Top.props # << >>
  /\ \E prop \in { Head(Top.props) } :
     /\ prop.pk = "assign"
     /\ prop.value.k = "ident"
     /\ \E proc \in { resolveIdentifierAsProcedure(prop.value.name, Top.file,
                                                    Caches) } :
        IF proc.r.isProc
        THEN /\ SetCaches(proc.c)
             /\ stack' = [stack EXCEPT ![Len(stack)] =
                            Advanced(<< ProcedureNode(prop.name, proc.r,
                                                      proc.r.filePath, proc.r.line) >>)]
             /\ UNCHANGED << visited, expansions, lastEntry, lastRef >>
        ELSE \E target \in { resolveIdentifierAsRouter(prop.value.name, Top.file,
                                                       proc.c.paths) } :
               NestedCall(prop, target, proc.c)
  /\ UNCHANGED << resolverVars, explorerVars >>
  /\ UNCHANGED << fs, results, requests, lastRequest, anaIn, anaOut, schIn, schOut >>

\* lines 546-571: the property's value is an inline router(...) call
StepInlineRouter ==
  /\ Building /\ Top.props # << >>
  /\ \E prop \in { Head(Top.props) } :
     /\ prop.pk = "assign"
     /\ prop.value.k = "call"
     /\ \E a \in { analyzeProcedureChain(prop.value, Top.file, Caches) } :
          ~a.r.isProc
     /\ isRouterCall(prop.value)
     /\ LET child == RouterNode(prop.name, Top.file, prop.line)
            walks == Len(prop.value.args) > 0 /\ prop.value.args[1].k = "obj"
        IN /\ walks => Len(stack) < MaxStack
           /\ stack' = IF walks
                       THEN Append([stack EXCEPT ![Len(stack)] = Advanced(<< >>)],
                                   InlineFrame(child, prop.value.args[1].props, Top.file))
                       ELSE [stack EXCEPT ![Len(stack)] = Advanced(<< child >>)]
  /\ UNCHANGED << resolverVars, explorerVars >>
  /\ UNCHANGED << fs, tsConfigPathsCache, enumResolutionCache,
                  nearestTsConfigPathCache, typeCheckerContextCache, constructions,
                  enumLookups,
                  visited, results, expansions, lastEntry, lastRef, requests,
                  lastRequest, anaIn, anaOut, schIn, schOut >>

\* lines 573-580: any other property assignment
StepPlaceholder ==
  /\ Building /\ Top.props # << >>
  /\ \E prop \in { Head(Top.props) } :
     /\ prop.pk = "assign"
     /\ prop.value.k # "ident"
     /\ \E a \in { analyzeProcedureChain(prop.value, Top.file, Caches) } :
          ~a.r.isProc
     /\ ~(prop.value.k = "call" /\ isRouterCall(prop.value))
     /\ stack' = [stack EXCEPT ![Len(stack)] =
                    Advanced(<< RouterNode(prop.name, Top.file, prop.line) >>)]
  /\ UNCHANGED << resolverVars, explorerVars >>
  /\ UNCHANGED << fs, tsConfigPathsCache, enumResolutionCache,
                  nearestTsConfigPathCache, typeCheckerContextCache, constructions,
                  enumLookups,
                  visited, results, expansions, lastEntry, lastRef, requests,
                  lastRequest, anaIn, anaOut, schIn, schOut >>

\* lines 583-590: a shorthand property
StepShorthand ==
  /\ Building /\ Top.props # << >>
  /\ \E prop \in { Head(Top.props) } :
     /\ prop.pk = "shorthand"
     /\ \E target \in { resolveIdentifierAsRouter(prop.name, Top.file,
                                                   tsConfigPathsCache) } :
        \E c \in { Caches } :
          NestedCall(prop, target, c)
  /\ UNCHANGED << resolverVars, explorerVars >>
  /\ UNCHANGED << fs, results, requests, lastRequest, anaIn, anaOut, schIn, schOut >>

\* a property that is neither an assignment nor a shorthand: the loop moves on
StepIgnored ==
  /\ Building /\ Top.props # << >>
  /\ Head(Top.props).pk \notin { "assign", "shorthand" }
  /\ stack' = [stack EXCEPT ![Len(stack)] = Advanced(<< >>)]
  /\ UNCHANGED << resolverVars, explorerVars >>
  /\ UNCHANGED << fs, tsConfigPathsCache, enumResolutionCache,
                  nearestTsConfigPathCache, typeCheckerContextCache, constructions,
                  enumLookups,
                  visited, results, expansions, lastEntry, lastRef, requests,
                  lastRequest, anaIn, anaOut, schIn, schOut >>

\* the walk of the top frame is over: the node goes to the caller
Return ==
  /\ Building /\ Top.props = << >>
  /\ IF Len(stack) = 1
     THEN /\ results' = Append(results, [key |-> Top.id, isNull |-> FALSE,
                                         tree |-> Top.node])
          /\ stack' = << >>
     ELSE LET child == IF Top.kind = "file"
                       THEN [Top.node EXCEPT !.name = Top.key] ELSE Top.node
              parent == stack[Len(stack) - 1]
          IN /\ stack' = [SubSeq(stack, 1, Len(stack) - 1) EXCEPT ![Len(stack) - 1] =
                            [parent EXCEPT !.node.children = Append(@, child)]]
             /\ results' = results
  /\ UNCHANGED << resolverVars, explorerVars >>
  /\ UNCHANGED << fs, tsConfigPathsCache, enumResolutionCache,
                  nearestTsConfigPathCache, typeCheckerContextCache, constructions,
                  enumLookups,
                  visited, expansions, lastEntry, lastRef, requests, lastRequest,
                  anaIn, anaOut, schIn, schOut >>

NoRequest ==
  [valid |-> FALSE, filePath |-> NoPath, root |-> NoPath, cachedBefore |-> FALSE,
   failedBefore |-> FALSE, ok |-> FALSE, built |-> 0, rootNames |-> << >>]

NoAnalysisInput == [valid |-> FALSE]

NoAnalysisOutput == [valid |-> FALSE, r |-> NoProcedure, inferred |-> Undef]

NoSchemaInput == [valid |-> FALSE]

NoSchemaOutput == [valid |-> FALSE, text |-> Undef, n |-> 0]

\* the state of each part of the program after construction
CachesEmpty ==
  /\ tsConfigPathsCache = EmptyMap
  /\ enumResolutionCache = EmptyMap
  /\ nearestTsConfigPathCache = EmptyMap
  /\ typeCheckerContextCache = EmptyMap
  /\ constructions = EmptyMap
  /\ enumLookups = EmptyMap

BuilderIdle ==
  /\ visited = {}
  /\ stack = << >>
  /\ results = << >>
  /\ expansions = EmptyMap
  /\ lastEntry = NoEntry
  /\ lastRef = NoRef

ContextIdle == requests = 0 /\ lastRequest = NoRequest

AnalysisIdle == anaIn = NoAnalysisInput /\ anaOut = NoAnalysisOutput

SchemaIdle == schIn = NoSchemaInput /\ schOut = NoSchemaOutput

NoLookup ==
  [valid |-> FALSE, from |-> NoPath, start |-> Root, r |-> NoTsConfigPaths,
   walked |-> << >>, probes |-> 0, before |-> EmptyMap,
   repeated |-> FALSE, noneBefore |-> FALSE]

NoImport ==
  [valid |-> FALSE, specifier |-> [rel |-> FALSE, segs |-> << >>],
   from |-> NoPath, r |-> NoPath, config |-> NoTsConfigPaths]

NoFileCall == [valid |-> FALSE, base |-> NoPath, r |-> NoPath]

ResolverIdle ==
  /\ resolverCalls = 0
  /\ lastLookup = NoLookup
  /\ lastImport = NoImport
  /\ lastFile = NoFileCall

NoDiscovery ==
  [phase |-> "idle", owner |-> "", files |-> << >>, file |-> NoPath,
   names |-> << >>, keys |-> {}, trees |-> << >>, pending |-> FALSE,
   listing |-> << >>, probed |-> << >>, built |-> << >>]

WebviewInitial ==
  [view |-> FALSE, cachedTrees |-> << >>, cached |-> FALSE, posted |-> << >>,
   isLoading |-> TRUE, rootNodes |-> << >>, sends |-> 0, settled |-> "none"]

\* no refresh has been called
NoFlights ==
  [started |-> 0, running |-> 0, stage |-> "", seen |-> {}, parked |-> {},
   outcome |-> EmptyMap]

TreeViewInitial ==
  [cachedTrees |-> << >>, cached |-> FALSE, asks |-> 0, items |-> << >>,
   settled |-> "none"]

ExplorerIdle ==
  /\ disc = NoDiscovery
  /\ webview = WebviewInitial
  /\ treeView = TreeViewInitial
  /\ flights = NoFlights

InitBuild ==
  /\ fs \in BuildWorlds
  /\ CachesEmpty
  /\ BuilderIdle
  /\ ContextIdle
  /\ AnalysisIdle
  /\ SchemaIdle
  /\ ResolverIdle
  /\ ExplorerIdle

NextBuild ==
  \/ \E input \in BuildInputs : StartBuild(input[1], input[2])
  \/ StepProcedure
  \/ StepIdentifier
  \/ StepInlineRouter
  \/ StepPlaceholder
  \/ StepShorthand
  \/ StepIgnored
  \/ Return

SpecBuild == InitBuild /\ [][NextBuild]_vars

\* whether the next step of the build in progress opens a frame
NextStepOpensFrame ==
  /\ Building /\ Top.props # << >>
  /\ \E prop \in { Head(Top.props) } :
     LET enters(target) ==
           ~parseRouterFromFileEntry(target.filePath, target.varName, visited).isNull
     IN CASE prop.pk = "shorthand" ->
               \E target \in { resolveIdentifierAsRouter(prop.name, Top.file,
                                                         tsConfigPathsCache) } :
                 enters(target)
          [] prop.pk = "assign" /\ prop.value.k = "ident" ->
               \E proc \in { resolveIdentifierAsProcedure(prop.value.name, Top.file,
                                                          Caches) } :
                 /\ ~proc.r.isProc
                 /\ \E target \in { resolveIdentifierAsRouter(prop.value.name,
                                                              Top.file,
                                                              proc.c.paths) } :
                      enters(target)
          [] prop.pk = "assign" /\ prop.value.k = "call" ->
               /\ \E a \in { analyzeProcedureChain(prop.value, Top.file, Caches) } :
                    ~a.r.isProc
               /\ isRouterCall(prop.value)
               /\ Len(prop.value.args) > 0 /\ prop.value.args[1].k = "obj"
          [] OTHER -> FALSE

\* the steps of a build in progress: parseRouterFromFile runs synchronously,
\* so a build that can take a step takes it
BuildStep == Building /\ NextBuild

\* the enabling condition of BuildStep, as a state predicate
BuildStepEnabled == Building /\ (NextStepOpensFrame => Len(stack) < MaxStack)

\* weak fairness of BuildStep, WF_vars(BuildStep), with its enabling
\* condition written out
BuildStepFair == []<>(~BuildStepEnabled) \/ []<><<BuildStep>>_vars

SpecBuildFair == SpecBuild /\ BuildStepFair

-----------------------------------------------------------------------------
(* resolveSchemaText on alias chains.  The chain s1 -> s2 -> ... -> sL     *)
(* starts in /p/src/a.ts; from link `split` + 1 on it continues in         *)
(* /p/lib/b.ts, reached by a relative or by a mapped import.  The last     *)
(* alias is a literal, an unresolvable name, or points back into the chain.*)

FA == << <<"p">>, <<"src">>, <<"a", ".ts">> >>
FB == << <<"p">>, <<"lib">>, <<"b", ".ts">> >>

AliasNames == << "s1", "s2", "s3", "s4", "s5", "s6", "s7", "s8", "s9" >>

OptionalSuffix == << ".", "optional", "(", ")" >>

ZodString == << "z", ".", "string", "(", ")" >>

Terminals == { "zod", "brace", "unresolved", "nonIdent" }

TerminalText(term) ==
  CASE term.t = "zod" -> ZodString
    [] term.t = "brace" -> << "{", "}" >>
    [] term.t = "unresolved" -> << "missing" >>
    [] term.t = "nonIdent" -> << "(", ")" >>
    [] OTHER -> << AliasNames[term.k] >>

AliasText(i, len, term, suffixed) ==
  IF i = len THEN TerminalText(term)
  ELSE << AliasNames[i + 1] >> \o (IF suffixed THEN OptionalSuffix ELSE << >>)

AliasDecls(from, to, len, term, suffixed) ==
  [j \in 1..(to - from + 1) |->
     Decl(AliasNames[from + j - 1],
          Text(AliasText(from + j - 1, len, term, suffixed)), j)]

DecoyText == << "z", ".", "boolean", "(", ")" >>

\* a declaration of /p/src/a.ts that must not be used: "local" gives the
\* imported name a local declaration as well (which wins), "context"
\* declares the name that /p/lib/b.ts resolves next
DecoyDecls(decoy, split) ==
  CASE decoy = "local" -> << Decl(AliasNames[split + 1], Text(DecoyText), 90) >>
    [] decoy = "context" -> << Decl(AliasNames[split + 2], Text(DecoyText), 90) >>
    [] OTHER -> << >>

SchemaWorld(len, term, split, mapped, suffixed, decoy) ==
  [dirs |-> { Root, DirP, DirSrc, DirLib },
   files |->
     (FA :> SourceFile(
              IF split < len
              THEN << ImportNamed(IF mapped THEN Bare(<< <<"@lib">>, <<"b">> >>)
                                  ELSE Relative(<< <<"..">>, <<"lib">>, <<"b">> >>),
                                  << AliasNames[split + 1] >>) >>
              ELSE << >>,
              AliasDecls(1, split, len, term, suffixed) \o DecoyDecls(decoy, split),
              EmptyMap))
     @@ (FB :> SourceFile(
              IF term.t = "cycle" /\ term.k <= split /\ split < len
              THEN << ImportNamed(Relative(<< <<"..">>, <<"src">>, <<"a">> >>),
                                  << AliasNames[term.k] >>) >>
              ELSE << >>,
              AliasDecls(split + 1, len, len, term, suffixed), EmptyMap))
     @@ (TsConfigP :> TsConfig(TRUE, << FA >>))]

SchemaParams ==
  { [len |-> len, term |-> term, split |-> split, mapped |-> mapped,
     suffixed |-> suffixed, decoy |-> decoy] :
      len \in 0..MaxChain,
      term \in [t : Terminals, k : {0}] \cup [t : {"cycle"}, k : 1..MaxChain],
      split \in 0..MaxChain, mapped \in BOOLEAN, suffixed \in BOOLEAN,
      decoy \in { "none", "local", "context" } }

ValidSchemaParams ==
  { q \in SchemaParams :
      /\ q.split <= q.len
      /\ q.term.t = "cycle" => q.term.k <= q.len
      /\ q.len = 0 => ~q.suffixed /\ ~q.mapped
      /\ q.decoy = "local" => q.split < q.len /\ q.term.t # "cycle"
      /\ q.decoy = "context" => q.split + 2 <= q.len /\ q.term.t # "cycle" }

SchemaInput(q) ==
  [valid |-> TRUE, params |-> q, filePath |-> FA,
   text |-> IF q.len = 0 THEN TerminalText(q.term)
            ELSE << AliasNames[1] >> \o (IF q.suffixed THEN OptionalSuffix ELSE << >>)]

InitSchema ==
  /\ \E q \in ValidSchemaParams :
       /\ fs = SchemaWorld(q.len, q.term, q.split, q.mapped, q.suffixed, q.decoy)
       /\ schIn = SchemaInput(q)
  /\ schOut = NoSchemaOutput
  /\ CachesEmpty
  /\ BuilderIdle
  /\ ContextIdle
  /\ AnalysisIdle
  /\ ResolverIdle
  /\ ExplorerIdle

\* one top-level resolveSchemaText(text, sourceFile, imports, filePath) call
ResolveSchema ==
  /\ schIn.valid /\ ~schOut.valid
  /\ \E r \in { resolveSchemaText(schIn.text, schIn.filePath, 0,
                                    tsConfigPathsCache) } :
       /\ schOut' = [valid |-> TRUE, text |-> r.text, n |-> r.n]
       /\ tsConfigPathsCache' = r.cache
  /\ UNCHANGED << resolverVars, explorerVars >>
  /\ UNCHANGED << fs, enumResolutionCache, nearestTsConfigPathCache,
                  typeCheckerContextCache, visited, stack, results, expansions,
                  constructions, enumLookups, lastEntry, lastRef, requests, lastRequest,
                  anaIn, anaOut, schIn >>

NextSchema == ResolveSchema

SpecSchema == InitSchema /\ [][NextSchema]_vars

-----------------------------------------------------------------------------
(* getTypeCheckerContext under requests in any order.  The project of the  *)
(* builder, plus /q/x.ts (no configuration above it), /p/src/deep/g.ts and,*)
(* optionally, a second configuration /p/lib/tsconfig.json.                *)

DirQ == << <<"q">> >>
DirDeep == << <<"p">>, <<"src">>, <<"deep">> >>
Q1 == << <<"q">>, <<"x", ".ts">> >>
F4 == << <<"p">>, <<"src">>, <<"deep">>, <<"g", ".ts">> >>
TsConfigLib == << <<"p">>, <<"lib">>, <<"tsconfig", ".json">> >>

ContextWorld(configOk, libConfig) ==
  LET w == BuildWorld({}, "assign", configOk)
      plain == SourceFile(<< >>, << >>, EmptyMap)
  IN [dirs |-> w.dirs \cup { DirQ, DirDeep },
      files |-> IF libConfig = "none"
                THEN w.files @@ (Q1 :> plain) @@ (F4 :> plain)
                ELSE w.files @@ (Q1 :> plain) @@ (F4 :> plain)
                     @@ (TsConfigLib :> TsConfig(libConfig = "ok", << F2 >>))]

ContextWorlds ==
  { ContextWorld(configOk, libConfig) :
      configOk \in BOOLEAN, libConfig \in { "none", "ok", "broken" } }

RequestFiles == { F1, F2, F3, F4, Q1 }

InitContext ==
  /\ fs \in ContextWorlds
  /\ CachesEmpty
  /\ BuilderIdle
  /\ ContextIdle
  /\ AnalysisIdle
  /\ SchemaIdle
  /\ ResolverIdle
  /\ ExplorerIdle

\* one getTypeCheckerContext(filePath) call
RequestContext(filePath) ==
  /\ requests < MaxRequests
  /\ \E g \in { getTypeCheckerContext(filePath, Caches) } :
     \E root \in { findNearestTsConfigFile(filePath, nearestTsConfigPathCache).r } :
        /\ SetCaches(g.c)
        /\ lastRequest' =
             [valid |-> TRUE, filePath |-> filePath, root |-> root,
              cachedBefore |-> root \in DOMAIN typeCheckerContextCache,
              failedBefore |-> /\ root \in DOMAIN typeCheckerContextCache
                               /\ ~typeCheckerContextCache[root].ok,
              ok |-> g.r.ok,
              built |-> Count(g.c.made, root) - Count(constructions, root),
              rootNames |-> g.r.rootNames]
  /\ requests' = requests + 1
  /\ UNCHANGED << resolverVars, explorerVars >>
  /\ UNCHANGED << fs, visited, stack, results, expansions, lastEntry, lastRef,
                  anaIn, anaOut, schIn, schOut >>

\* clearProcedureAnalysisCaches()
ClearCaches ==
  /\ typeCheckerContextCache # EmptyMap \/ nearestTsConfigPathCache # EmptyMap
  /\ SetCaches(clearProcedureAnalysisCaches(Caches))
  /\ lastRequest' = NoRequest
  /\ UNCHANGED << resolverVars, explorerVars >>
  /\ UNCHANGED << fs, visited, stack, results, expansions, lastEntry, lastRef,
                  requests, anaIn, anaOut, schIn, schOut >>

NextContext ==
  \/ \E f \in RequestFiles : RequestContext(f)
  \/ ClearCaches

SpecContext == InitContext /\ [][NextContext]_vars

-----------------------------------------------------------------------------
(* analyzeProcedureChain on one procedure chain of /p/src/f1.ts:           *)
(*   publicProcedure[.input(z.number())][.input(arg)][.use(mw)]            *)
(*                  [.output(arg)].method(resolver)                        *)

ZodNumber == << "z", ".", "number", "(", ")" >>

ObjectType == << "{", "id", ":", "string", ";", "}" >>

\* z.object({ <fields> }), each field written name: z.<primitive>()<suffixes>
ZodField(name, primitive, suffixes) ==
  << name, ":", "z", ".", primitive, "(", ")" >> \o suffixes

ZodSuffix(name) == << ".", name, "(", ")" >>

ZodObject(first, second) ==
  << "z", ".", "object", "(", "{" >> \o first \o << "," >> \o second
  \o << "}", ")" >>

ArgumentText(kind) ==
  CASE kind = "zod" -> ZodString
    [] kind = "alias" -> << "UserInput" >>
    [] kind = "unresolved" -> << "Missing" >>
    [] kind = "later" ->
         ZodObject(ZodField("id", "string", << >>),
                   ZodField("name", "string", ZodSuffix("optional")))
    [] kind = "earlier" ->
         ZodObject(ZodField("name", "string", ZodSuffix("nullable")),
                   ZodField("id", "number", << >>))
    [] kind = "own" ->
         ZodObject(ZodField("id", "string", ZodSuffix("nullable")),
                   ZodField("name", "date", ZodSuffix("nullable")
                                            \o ZodSuffix("optional")))
    [] OTHER -> Undef

ArgumentKinds ==
  { "none", "empty", "zod", "alias", "unresolved", "later", "earlier", "own" }

ResolverKinds ==
  { "none", "ident", "str", "typed", "untyped", "spread", "field", "two" }

ResolverArguments(kind) ==
  CASE kind = "none" -> << >>
    [] kind = "ident" -> << Ident("save") >>
    [] kind = "str" -> << Fn(<< Returns([k |-> "str"], << "string" >>) >>) >>
    [] kind = "typed" -> << Fn(<< Returns(OtherExpr, RoleType) >>) >>
    [] kind = "untyped" -> << Fn(<< Returns(OtherExpr, Undef) >>) >>
    [] kind = "spread" ->
         << Fn(<< Returns(
               [k |-> "objlit",
                props |-> << [pk |-> "assign", name |-> "id", value |-> [k |-> "num"]],
                             [pk |-> "spread", name |-> "", value |-> OtherExpr] >>],
               << "{", "name", ":", "string", ";", "id", ":", "number", ";", "}" >>) >>) >>
    [] kind = "field" ->
         << Fn(<< Returns([k |-> "access", onInput |-> TRUE, name |-> "id"],
                          << "string" >>) >>) >>
    [] OTHER ->
         << Fn(<< Returns([k |-> "str"], << "string" >>),
                  Returns([k |-> "wrap", inner |-> [k |-> "num"]], << "number" >>) >>) >>

ProcedureTypeText(kind) ==
  CASE kind = "object" -> ObjectType
    [] kind = "role" -> RoleType
    [] kind = "unknown" -> << "unknown" >>
    [] kind = "any" -> << "any" >>
    [] OTHER -> Undef

WithCall(recv, present, name, args) ==
  IF present THEN MethodCall(recv, name, args, NoProcType) ELSE recv

ArgumentsOf(kind) ==
  IF kind = "empty" THEN << >> ELSE << Text(ArgumentText(kind)) >>

AnalysisNode(q) ==
  LET r1 == WithCall(Ident("publicProcedure"), q.twice, "input",
                     << Text(ZodNumber) >>)
      r2 == WithCall(r1, q.inArg # "none", "input", ArgumentsOf(q.inArg))
      r3 == WithCall(r2, q.twice, "use", << Ident("mw") >>)
      r4 == WithCall(r3, q.outArg # "none", "output", ArgumentsOf(q.outArg))
  IN MethodCall(r4, q.method, ResolverArguments(q.resolver),
                [inputSchema |-> ProcedureTypeText(q.ptin),
                 outputSchema |-> ProcedureTypeText(q.ptout)])

AnalysisParams ==
  [method : ProcedureMethods \cup { "use" },
   inArg : ArgumentKinds, outArg : { "none", "zod", "alias" },
   twice : BOOLEAN, resolver : ResolverKinds,
   ptin : { "none", "object", "unknown" }, ptout : { "none", "role", "any" },
   configOk : BOOLEAN]

InitAnalysis ==
  /\ \E q \in AnalysisParams :
       /\ fs = BuildWorld({}, "assign", q.configOk)
       /\ anaIn = [valid |-> TRUE, params |-> q, node |-> AnalysisNode(q),
                   filePath |-> F1]
  /\ anaOut = NoAnalysisOutput
  /\ CachesEmpty
  /\ BuilderIdle
  /\ ContextIdle
  /\ SchemaIdle
  /\ ResolverIdle
  /\ ExplorerIdle

\* one analyzeProcedureChain(node, sourceFile, imports, filePath, resolveSchemaText) call
Analyze ==
  /\ anaIn.valid /\ ~anaOut.valid
  /\ \E a \in { analyzeProcedureChain(anaIn.node, anaIn.filePath, Caches) } :
        /\ anaOut' = [valid |-> TRUE, r |-> a.r, inferred |-> a.inferred]
        /\ SetCaches(a.c)
  /\ UNCHANGED << resolverVars, explorerVars >>
  /\ UNCHANGED << fs, visited, stack, results, expansions, lastEntry, lastRef,
                  requests, lastRequest, anaIn, schIn, schOut >>

NextAnalysis == Analyze

SpecAnalysis == InitAnalysis /\ [][NextAnalysis]_vars

-----------------------------------------------------------------------------
(* The module resolver under calls in any order.  /r/tsconfig.json maps    *)
(* "@app/*" to "./src/*" and, optionally, "@app/db/*" to "./database/*",   *)
(* declared before or after; /r/lib may hold a configuration of its own    *)
(* without a usable table; nothing above /o/x/y.ts holds a configuration.  *)
(* What exists at /r/src/db, /r/src/db.ts, ... varies.                     *)

DirR == << <<"r">> >>
DirRSrc == << <<"r">>, <<"src">> >>
DirRLib == << <<"r">>, <<"lib">> >>
DirRDatabase == << <<"r">>, <<"database">> >>
DirO == << <<"o">> >>
DirOX == << <<"o">>, <<"x">> >>
RA == << <<"r">>, <<"src">>, <<"a", ".ts">> >>
RB == << <<"r">>, <<"lib">>, <<"b", ".ts">> >>
OY == << <<"o">>, <<"x">>, <<"y", ".ts">> >>
TsConfigR == << <<"r">>, <<"tsconfig", ".json">> >>
TsConfigRLib == << <<"r">>, <<"lib">>, <<"tsconfig", ".json">> >>
SrcDb == << <<"r">>, <<"src">>, <<"db">> >>
SrcDbTs == << <<"r">>, <<"src">>, <<"db", ".ts">> >>
SrcDbTsx == << <<"r">>, <<"src">>, <<"db", ".tsx">> >>
SrcDbIndexTs == << <<"r">>, <<"src">>, <<"db">>, <<"index", ".ts">> >>
SrcDbIndexTsx == << <<"r">>, <<"src">>, <<"db">>, <<"index", ".tsx">> >>
SrcDbX == << <<"r">>, <<"src">>, <<"db">>, <<"x">> >>
SrcDbXTs == << <<"r">>, <<"src">>, <<"db">>, <<"x", ".ts">> >>
DatabaseX == << <<"r">>, <<"database">>, <<"x">> >>
DatabaseXTs == << <<"r">>, <<"database">>, <<"x", ".ts">> >>

\* "@app/*": ["./src/*"]
AppPattern ==
  [pre |-> << <<"@app">> >>, wild |-> TRUE, subs |-> << << <<".">>, <<"src">> >> >>]

\* "@app/db/*": ["./database/*"]
AppDbPattern ==
  [pre |-> << <<"@app">>, <<"db">> >>, wild |-> TRUE,
   subs |-> << << <<".">>, <<"database">> >> >>]

PathsConfig(hasPaths, paths) ==
  [kind |-> "json", jsonOk |-> TRUE, tsOk |-> TRUE, hasPaths |-> hasPaths,
   paths |-> paths, baseUrl |-> << <<".">> >>, fileNames |-> << >>]

DeclaredPaths(order) ==
  CASE order = "only" -> << AppPattern >>
    [] order = "shortFirst" -> << AppPattern, AppDbPattern >>
    [] OTHER -> << AppDbPattern, AppPattern >>

PlainSource == SourceFile(<< >>, << >>, EmptyMap)

Present(flag, path) == IF flag THEN (path :> PlainSource) ELSE EmptyMap

ResolveWorld(q) ==
  [dirs |-> { Root, DirR, DirRSrc, DirRLib, DirRDatabase, DirO, DirOX }
            \cup (IF q.db = "dir" THEN { SrcDb } ELSE {}),
   files |->
     (RA :> PlainSource) @@ (RB :> PlainSource) @@ (OY :> PlainSource)
     @@ (TsConfigR :> PathsConfig(TRUE, DeclaredPaths(q.order)))
     @@ (IF q.near = "absent" THEN EmptyMap
         ELSE (TsConfigRLib :> PathsConfig(q.near = "empty", << >>)))
     @@ Present(q.db = "file", SrcDb)
     @@ Present(q.dbTs, SrcDbTs)
     @@ Present(q.dbTsx, SrcDbTsx)
     @@ Present(q.indexTs, SrcDbIndexTs)
     @@ Present(q.indexTsx, SrcDbIndexTsx)
     @@ Present(q.srcX, SrcDbXTs)
     @@ Present(q.databaseX, DatabaseXTs)]

ResolveParams ==
  { q \in [db : { "none", "file", "dir" }, dbTs : BOOLEAN, dbTsx : BOOLEAN,
           indexTs : BOOLEAN, indexTsx : BOOLEAN, srcX : BOOLEAN,
           databaseX : BOOLEAN, order : { "only", "shortFirst", "longFirst" },
           near : { "absent", "nopaths", "empty" }] :
      q.db # "dir" => ~q.indexTs /\ ~q.indexTsx /\ ~q.srcX }

AppDb == Bare(<< <<"@app">>, <<"db">> >>)
AppDbX == Bare(<< <<"@app">>, <<"db">>, <<"x">> >>)
RelativeDb == Relative(<< <<"..">>, <<"src">>, <<"db">> >>)

LookupFiles == { RA, RB, OY }

ImportSpecifiers == { AppDb, AppDbX, RelativeDb }

FileBases == { SrcDb, SrcDbX, DatabaseX }

InitResolve ==
  /\ \E q \in ResolveParams : fs = ResolveWorld(q)
  /\ CachesEmpty
  /\ BuilderIdle
  /\ ContextIdle
  /\ AnalysisIdle
  /\ SchemaIdle
  /\ ResolverIdle
  /\ ExplorerIdle

\* one getTsConfigPaths(fromFilePath) call
LookupPaths(fromFilePath) ==
  /\ resolverCalls < MaxResolverCalls
  /\ \E start \in { dirname(fromFilePath) } :
     \E t \in { getTsConfigPaths(fromFilePath, tsConfigPathsCache) } :
     \E walked \in { getTsConfigPathsWalked(start, tsConfigPathsCache) } :
        /\ tsConfigPathsCache' = t.cache
        /\ lastLookup' =
             [valid |-> TRUE, from |-> fromFilePath, start |-> start, r |-> t.r,
              walked |-> walked,
              probes |-> Cardinality({ i \in 1..Len(walked) :
                                        walked[i] \notin DOMAIN tsConfigPathsCache }),
              before |-> tsConfigPathsCache,
              repeated |-> lastLookup.valid /\ lastLookup.start = start,
              noneBefore |-> lastLookup.valid /\ ~lastLookup.r.found]
  /\ lastImport' = NoImport
  /\ lastFile' = NoFileCall
  /\ resolverCalls' = resolverCalls + 1
  /\ UNCHANGED explorerVars
  /\ UNCHANGED << fs, enumResolutionCache, nearestTsConfigPathCache,
                  typeCheckerContextCache, visited, stack, results, expansions,
                  constructions, enumLookups, lastEntry, lastRef, requests, lastRequest,
                  anaIn, anaOut, schIn, schOut >>

\* one resolveImport(specifier, fromFilePath) call
ImportCall(specifier, fromFilePath) ==
  /\ resolverCalls < MaxResolverCalls
  /\ \E t \in { resolveImport(specifier, fromFilePath, tsConfigPathsCache) } :
     \E config \in { getTsConfigPaths(fromFilePath, tsConfigPathsCache).r } :
        /\ tsConfigPathsCache' = t.cache
        /\ lastImport' = [valid |-> TRUE, specifier |-> specifier,
                          from |-> fromFilePath, r |-> t.r, config |-> config]
  /\ lastLookup' = NoLookup
  /\ lastFile' = NoFileCall
  /\ resolverCalls' = resolverCalls + 1
  /\ UNCHANGED explorerVars
  /\ UNCHANGED << fs, enumResolutionCache, nearestTsConfigPathCache,
                  typeCheckerContextCache, visited, stack, results, expansions,
                  constructions, enumLookups, lastEntry, lastRef, requests, lastRequest,
                  anaIn, anaOut, schIn, schOut >>

\* one resolveFile(base) call
FileCall(base) ==
  /\ resolverCalls < MaxResolverCalls
  /\ \E r \in { resolveFile(base) } :
       lastFile' = [valid |-> TRUE, base |-> base, r |-> r]
  /\ lastLookup' = NoLookup
  /\ lastImport' = NoImport
  /\ resolverCalls' = resolverCalls + 1
  /\ UNCHANGED explorerVars
  /\ UNCHANGED << fs, tsConfigPathsCache, enumResolutionCache,
                  nearestTsConfigPathCache, typeCheckerContextCache, visited,
                  stack, results, expansions, constructions, enumLookups, lastEntry, lastRef,
                  requests, lastRequest, anaIn, anaOut, schIn, schOut >>

NextResolve ==
  \/ \E f \in LookupFiles : LookupPaths(f)
  \/ \E specifier \in ImportSpecifiers : \E f \in LookupFiles :
       ImportCall(specifier, f)
  \/ \E base \in FileBases : FileCall(base)

SpecResolve == InitResolve /\ [][NextResolve]_vars

-----------------------------------------------------------------------------
(* Discovery and the two views.  discoverAppRouterTrees lists candidate    *)
(* files, reads the AppRouter aliases of each and has every aliased        *)
(* variable built; TrpcWebviewProvider posts the trees to its view,        *)
(* TrpcTreeProvider turns them into tree items.  The workspace is /w with  *)
(* /w/server/root.ts, /w/server/procs.ts and, in some worlds, a file that  *)
(* cannot be read and a tsconfig.json.                                     *)

DirW == << <<"w">> >>
DirWServer == << <<"w">>, <<"server">> >>
WRoot == << <<"w">>, <<"server">>, <<"root", ".ts">> >>
WProcs == << <<"w">>, <<"server">>, <<"procs", ".ts">> >>
WLocked == << <<"w">>, <<"server">>, <<"locked", ".ts">> >>
WMain == << <<"w">>, <<"main", ".ts">> >>
TsConfigW == << <<"w">>, <<"tsconfig", ".json">> >>

\* constants.ts: APP_ROUTER_DISPLAY_NAME
AppRouterDisplayName == "AppRouter"

\* constants.ts: NODE_MODULES_GLOB, as the directory name it excludes
NodeModulesGlob == << "node_modules" >>

\* a glob "**/<dir>/**/<name>.ts"; an empty dir or name stands for no constraint
Glob(dir, name) == [dir |-> dir, name |-> name]

\* constants.ts: ROUTER_DISCOVERY_PATTERNS
RouterDiscoveryPatterns ==
  << Glob("", "root"), Glob("", "trpc"), Glob("", "_app"),
     Glob("server", ""), Glob("api", "") >>

\* "**/*.ts"
AllTsFiles == Glob("", "")

globMatches(glob, p) ==
  LET base == p[Len(p)] IN
  /\ Len(base) = 2 /\ base[2] = ".ts"
  /\ glob.name # "" => base[1] = glob.name
  /\ glob.dir # "" => \E i \in 1..(Len(p) - 1) : p[i] = << glob.dir >>

\* vscode.workspace.findFiles(glob, exclude) over a workspace that lists its
\* files in the order `listing`
findFiles(glob, exclude, listing) ==
  SelectSeq(listing, LAMBDA p :
    /\ globMatches(glob, p)
    /\ \A i \in 1..(Len(p) - 1) : p[i] # exclude)

RECURSIVE prioritizedCandidates(_, _)
\* routerDiscovery.ts:16-25, before the duplicates are dropped
prioritizedCandidates(patterns, listing) ==
  IF patterns = << >> THEN << >>
  ELSE Bind(Tail(patterns), LAMBDA rest :
         findFiles(Head(patterns), NodeModulesGlob, listing)
           \o prioritizedCandidates(rest, listing))

\* a faulty variant: neither loop skips a file it has seen
discoverCandidatesRepeating(listing) ==
  prioritizedCandidates(RouterDiscoveryPatterns, listing)
    \o findFiles(AllTsFiles, NodeModulesGlob, listing)

\* routerDiscovery.ts:13-44: the files addTreesFromFile is called for, in order
discoverCandidates(listing) ==
  Bind(dedup(prioritizedCandidates(RouterDiscoveryPatterns, listing)),
       LAMBDA prioritized :
    prioritized \o SelectSeq(findFiles(AllTsFiles, NodeModulesGlob, listing),
                             LAMBDA p : p \notin Range(prioritized)))

\* the orders in which the workspace may list its TypeScript files
Listings ==
  LET files == { p \in DOMAIN fs.files : globMatches(AllTsFiles, p) }
      n == Cardinality(files)
  IN { s \in [1..n -> files] : \A i, j \in 1..n : i # j => s[i] # s[j] }

\* a source file with its `type AppRouter = typeof <name>` declarations
WithAppRouters(sourceFile, names) == sourceFile @@ [appRouters |-> names]

\* a file whose content cannot be read
Unreadable == [kind |-> "unreadable"]

\* parser.ts:19-50; threw: readFileSync raised
findAppRoutersInFile(filePath) ==
  IF ~existsSync(filePath) THEN [threw |-> FALSE, names |-> << >>]
  ELSE IF fs.files[filePath].kind = "unreadable"
  THEN [threw |-> TRUE, names |-> << >>]
  ELSE IF "appRouters" \notin DOMAIN fs.files[filePath]
  THEN [threw |-> FALSE, names |-> << >>]
  ELSE [threw |-> FALSE, names |-> dedup(fs.files[filePath].appRouters)]

\* publicProcedure.query(...)
ListQuery(resolver, typed) ==
  MethodCall(Ident("publicProcedure"), "query", ResolverArguments(resolver),
             IF typed THEN [inputSchema |-> << "unknown" >>,
                            outputSchema |-> << "string" >>]
             ELSE NoProcType)

\* publicProcedure.input(z.string()).query(...)
ByIdQuery(resolver, typed) ==
  MethodCall(MethodCall(Ident("publicProcedure"), "input",
                        << Text(ZodString) >>, NoProcType),
             "query", ResolverArguments(resolver),
             IF typed THEN [inputSchema |-> << "string" >>,
                            outputSchema |-> << "number" >>]
             ELSE NoProcType)

\* publicProcedure.input(z.string()).mutation(() => "ok")
SaveMutation ==
  MethodCall(MethodCall(Ident("publicProcedure"), "input",
                        << Text(ZodString) >>, NoProcType),
             "mutation", ResolverArguments("str"), NoProcType)

ScenarioProperties(q) ==
  << Assign("list", ListQuery(IF q.typed THEN "untyped" ELSE "str", q.typed), 4),
     Assign("byId", ByIdQuery(q.resolver, q.typed), 5) >>

\* const appRouter = router({ list: ..., byId: ... }) with its alias
ScenarioSource(q) ==
  WithAppRouters(
    SourceFile(<< >>,
               << Decl("appRouter",
                       PlainCall("router", << ObjectLiteral(ScenarioProperties(q)) >>),
                       3) >>,
               EmptyMap),
    << "appRouter" >>)

\* the same router with more properties: an inline procedure, the same
\* procedure imported by default from ./procs under the name q.local, an
\* inline router, a value that is no call, a spread and a shorthand
ExtendedSource(q) ==
  WithAppRouters(
    SourceFile(
      << ImportDefault(Relative(<< <<".">>, <<"procs">> >>), q.local) >>,
      << Decl("appRouter",
              PlainCall("router",
                << ObjectLiteral(
                     ScenarioProperties(q)
                     \o << Assign("same", SaveMutation, 6),
                           Assign("ext", Ident(q.local), 7),
                           Assign("nested", PlainCall("router",
                             << ObjectLiteral(<< Assign("ping", ListQuery("str", FALSE), 9) >>) >>),
                             8),
                           Assign("misc", OtherExpr, 10),
                           Spread(11),
                           Shorthand("adminRouter", 12) >>) >>),
              3),
         Decl("adminRouter",
              PlainCall("router",
                << ObjectLiteral(<< Assign("ping", ListQuery("str", FALSE), 21) >>) >>),
              20) >>,
      EmptyMap),
    q.aliases)

\* export default of /w/server/procs.ts: const save = <SaveMutation>
DeclaredName == "save"

LocalNames == { "save", "saveUser" }

When(flag, m) == IF flag THEN m ELSE EmptyMap

ExplorerWorld(q) ==
  [dirs |-> { Root, DirW, DirWServer },
   files |->
     (WRoot :> IF q.router = "scenario" THEN ScenarioSource(q)
               ELSE ExtendedSource(q))
     @@ (WProcs :> SourceFile(<< >>, << Decl(DeclaredName, SaveMutation, 1) >>,
                              EmptyMap))
     @@ When(q.outside,
             WMain :> WithAppRouters(
               SourceFile(<< >>,
                          << Decl("mainRouter",
                                  PlainCall("router",
                                    << ObjectLiteral(
                                         << Assign("ping", ListQuery("str", FALSE), 2) >>) >>),
                                  1) >>,
                          EmptyMap),
               << "mainRouter" >>))
     @@ When(q.locked, WLocked :> Unreadable)
     @@ When(q.typed, TsConfigW :> TsConfig(TRUE, << WRoot >>))]

ExplorerParams ==
  { q \in [router : { "scenario", "extended" }, local : LocalNames,
           aliases : { << >>, << "appRouter" >>, << "appRouter", "appRouter" >>,
                       << "appRouter", "adminRouter" >> },
           resolver : { "str", "field" }, typed : BOOLEAN, locked : BOOLEAN,
           outside : BOOLEAN] :
      /\ q.router = "scenario" => q.local = DeclaredName /\ q.aliases = << "appRouter" >>
      /\ q.outside => /\ q.router = "extended" /\ q.local = DeclaredName
                      /\ q.resolver = "str" /\ Len(q.aliases) <= 1 }

InitExplorer ==
  /\ \E q \in ExplorerParams : fs = ExplorerWorld(q)
  /\ CachesEmpty
  /\ BuilderIdle
  /\ ContextIdle
  /\ AnalysisIdle
  /\ SchemaIdle
  /\ ResolverIdle
  /\ ExplorerIdle

\* sendTree and getChildren calls made so far
Shows == webview.sends + treeView.asks

Loading == [type |-> "loading", trees |-> << >>]

\* the update message made from `trees` (each tree goes through
\* mapNodeToWebviewNode, which keeps its name)
Update(trees) == [type |-> "update", trees |-> trees]

\* main.ts:20-37: the view's listener
receiveMessage(w, msg) ==
  IF msg.type = "loading" THEN [w EXCEPT !.isLoading = TRUE]
  ELSE [w EXCEPT !.isLoading = FALSE,
                 !.rootNodes = [i \in 1..Len(msg.trees) |-> msg.trees[i].name]]

\* this.webviewView?.webview.postMessage(msg)
postMessage(w, msg) ==
  IF w.view THEN receiveMessage([w EXCEPT !.posted = Append(@, msg)], msg) ELSE w

\* `if (this.cachedTrees)`: webviewProvider.ts:67, trpcTreeProvider.ts:78
hasCachedTrees(provider) == provider.cached

\* discoverAppRouterTrees up to the first addTreesFromFile call
startDiscovery(owner, listing) ==
  [phase |-> "running", owner |-> owner, files |-> discoverCandidates(listing),
   file |-> NoPath, names |-> << >>, keys |-> {}, trees |-> << >>,
   pending |-> FALSE, listing |-> listing, probed |-> << >>, built |-> << >>]

\* createNoResultItem's placeholder node
NoResultNode ==
  [RouterNode("No AppRouter found. Export type AppRouter = typeof appRouter",
              NoPath, 0) EXCEPT !.type = "router"]

\* trpcTreeProvider.ts:59-64
FileNode(filePath, group) ==
  [RouterNode(filePath[Len(filePath)], filePath, 0)
     EXCEPT !.type = "file", !.children = group]

\* trpcTreeProvider.ts:36-74: the nodes of the items getChildren returns
rootItems(trees) ==
  IF trees = << >> THEN << NoResultNode >>
  ELSE Bind(dedup([i \in 1..Len(trees) |-> trees[i].filePath]), LAMBDA paths :
         [i \in 1..Len(paths) |->
            LET group == SelectSeq(trees, LAMBDA t : t.filePath = paths[i])
            IN IF Len(group) = 1 THEN group[1] ELSE FileNode(paths[i], group)])

\* the promise of the discovery's caller is fulfilled with `trees`
Fulfil(trees) ==
  IF disc.owner = "webview"
  THEN /\ webview' = [postMessage([webview EXCEPT !.cachedTrees = trees,
                                                  !.cached = TRUE],
                                  Update(trees))
                        EXCEPT !.settled = "fulfilled"]
       /\ treeView' = treeView
  ELSE /\ treeView' = [treeView EXCEPT !.cachedTrees = trees, !.cached = TRUE,
                                       !.items = rootItems(trees),
                                       !.settled = "fulfilled"]
       /\ webview' = webview

\* the exception leaves discoverAppRouterTrees, resolveTrees and the caller
Reject ==
  IF disc.owner = "webview"
  THEN /\ webview' = [webview EXCEPT !.settled = "rejected"]
       /\ treeView' = treeView
  ELSE /\ treeView' = [treeView EXCEPT !.settled = "rejected"]
       /\ webview' = webview

builderVars ==
  << tsConfigPathsCache, enumResolutionCache, nearestTsConfigPathCache,
     typeCheckerContextCache, constructions, enumLookups, visited, stack, results,
     expansions, lastEntry, lastRef >>

otherVars == << fs, requests, lastRequest, anaIn, anaOut, schIn, schOut >>

\* webviewProvider.ts:15-47: the view is created and its script loaded
ResolveWebviewView ==
  /\ ~webview.view
  /\ webview' = [webview EXCEPT !.view = TRUE, !.isLoading = TRUE,
                                !.rootNodes = << >>]
  /\ UNCHANGED << disc, treeView, flights, builderVars, resolverVars, otherVars >>

\* webviewProvider.ts:56-75, up to the await of the discovery
sendTree(w) ==
  \E w1 \in { postMessage([w EXCEPT !.sends = @ + 1], Loading) } :
    IF hasCachedTrees(w1)
    THEN /\ webview' = [postMessage(w1, Update(w1.cachedTrees))
                          EXCEPT !.settled = "fulfilled"]
         /\ disc' = disc
    ELSE /\ webview' = [w1 EXCEPT !.settled = "pending"]
         /\ \E listing \in Listings : disc' = startDiscovery("webview", listing)

\* the view's script posts "ready" (webviewProvider.ts:42-45)
WebviewReady ==
  /\ webview.view
  /\ disc.phase # "running" /\ Shows < MaxShows
  /\ sendTree(webview)
  /\ UNCHANGED << treeView, flights, builderVars, resolverVars, otherVars >>

\* webviewProvider.ts:50-54, called by the file watcher and the refresh command
WebviewRefresh ==
  /\ disc.phase # "running" /\ Shows < MaxShows
  /\ sendTree([webview EXCEPT !.cachedTrees = << >>, !.cached = FALSE])
  /\ UNCHANGED << treeView, flights, builderVars, resolverVars, otherVars >>

\* trpcTreeProvider.ts:17-21
TreeRefresh ==
  /\ disc.phase # "running"
  /\ hasCachedTrees(treeView)
  /\ treeView' = [treeView EXCEPT !.cachedTrees = << >>, !.cached = FALSE]
  /\ UNCHANGED << disc, webview, flights, builderVars, resolverVars, otherVars >>

\* trpcTreeProvider.ts:27-86 for the roots of an open workspace, up to the
\* await of the discovery
GetChildren ==
  /\ disc.phase # "running" /\ Shows < MaxShows
  /\ IF hasCachedTrees(treeView)
     THEN /\ treeView' = [treeView EXCEPT !.asks = @ + 1,
                                          !.items = rootItems(treeView.cachedTrees),
                                          !.settled = "fulfilled"]
          /\ disc' = disc
     ELSE /\ treeView' = [treeView EXCEPT !.asks = @ + 1, !.items = << >>,
                                          !.settled = "pending"]
          /\ \E listing \in Listings : disc' = startDiscovery("tree", listing)
  /\ UNCHANGED << webview, flights, builderVars, resolverVars, otherVars >>

\* routerDiscovery.ts:61: addTreesFromFile reads the aliases of the next file
DiscoverFile ==
  /\ disc.phase = "running" /\ ~disc.pending
  /\ disc.names = << >> /\ disc.files # << >>
  /\ \E found \in { findAppRoutersInFile(Head(disc.files)) } :
       IF found.threw
       THEN /\ disc' = [disc EXCEPT !.phase = "failed",
                                    !.probed = Append(@, Head(disc.files))]
            /\ Reject
       ELSE /\ disc' = [disc EXCEPT !.file = Head(disc.files),
                                    !.files = Tail(disc.files),
                                    !.names = found.names,
                                    !.probed = Append(@, Head(disc.files))]
            /\ UNCHANGED << webview, treeView >>
  /\ UNCHANGED << flights, builderVars, resolverVars, otherVars >>

\* a faulty variant: every key counts as parsed already
keyParsedAlways(keys, key) == TRUE

\* routerDiscovery.ts:65
keyParsed(keys, key) == key \in keys

\* routerDiscovery.ts:63-70: the next aliased variable is handed to the builder
DiscoverRouter ==
  /\ disc.phase = "running" /\ ~disc.pending /\ disc.names # << >>
  /\ \E key \in { << disc.file, Head(disc.names) >> } :
       IF keyParsed(disc.keys, key)
       THEN /\ disc' = [disc EXCEPT !.names = Tail(disc.names)]
            /\ UNCHANGED << builderVars, resolverVars, otherVars >>
       ELSE /\ disc' = [disc EXCEPT !.keys = @ \cup { key }, !.pending = TRUE,
                                    !.built = Append(@, key)]
            /\ parseRouterFromFileCall(key[1], key[2])
  /\ UNCHANGED << webview, treeView, flights >>

\* routerDiscovery.ts:75
displayName(tree) == [tree EXCEPT !.name = AppRouterDisplayName]

\* routerDiscovery.ts:70-76: the builder returned
DiscoverCollect ==
  /\ disc.phase = "running" /\ disc.pending /\ ~Building
  /\ \E tree \in { results[Len(results)] } :
       disc' = [disc EXCEPT !.pending = FALSE, !.names = Tail(disc.names),
                            !.trees = IF tree.isNull THEN @
                                      ELSE Append(@, displayName(tree.tree))]
  /\ UNCHANGED << webview, treeView, flights, builderVars, resolverVars, otherVars >>

\* routerDiscovery.ts:46-47 and what the caller does with the trees
DiscoverDone ==
  /\ disc.phase = "running" /\ ~disc.pending
  /\ disc.names = << >> /\ disc.files = << >>
  /\ Fulfil(disc.trees)
  /\ disc' = [disc EXCEPT !.phase = "done"]
  /\ UNCHANGED << flights, builderVars, resolverVars, otherVars >>

NextExplorer ==
  \/ ResolveWebviewView
  \/ WebviewReady
  \/ WebviewRefresh
  \/ TreeRefresh
  \/ GetChildren
  \/ DiscoverFile
  \/ DiscoverRouter
  \/ DiscoverCollect
  \/ DiscoverDone
  \/ StepProcedure
  \/ StepIdentifier
  \/ StepInlineRouter
  \/ StepPlaceholder
  \/ StepShorthand
  \/ StepIgnored
  \/ Return

SpecExplorer == InitExplorer /\ [][NextExplorer]_vars

-----------------------------------------------------------------------------
(* Overlapping refreshes.  /w/server/root.ts declares the application      *)
(* router and imports the procedure `save` from "@lib/procs";              *)
(* /w/tsconfig.json maps "@lib/*" to "./lib/*", to "./server/*" or to      *)
(* nothing; both /w/lib/procs.ts and /w/server/procs.ts declare a `save`.  *)
(* The                                                                     *)
(* router's source and the configuration are edited while the extension    *)
(* runs.  discoverAppRouterTrees gives up control at each await of         *)
(* findFiles: a discovery waits there, "parked", until its listing         *)
(* arrives, and the listings of different discoveries arrive in any order. *)
(* The five awaits of the pattern loop are taken as one, and the workspace *)
(* lists its files in one order.                                           *)

DirWLib == << <<"w">>, <<"lib">> >>
WLibProcs == << <<"w">>, <<"lib">>, <<"procs", ".ts">> >>

\* { "compilerOptions": { "paths": { "@lib/*": ["./<target>/*"] } } }, or a
\* configuration without paths when the target is "none"
TsConfigMapping(target) ==
  [TsConfig(TRUE, << WRoot >>) EXCEPT
     !.hasPaths = target # "none",
     !.paths = << [pre |-> << <<"@lib">> >>, wild |-> TRUE,
                   subs |-> << << <<".">>, << target >> >> >>] >>]

MappingTargets == { "lib", "server", "none" }

RefreshVersions == [src : { "one", "two" }, cfg : MappingTargets]

RefreshWorld(v) ==
  [dirs |-> { Root, DirW, DirWServer, DirWLib },
   files |->
     (WRoot :> WithAppRouters(
        SourceFile(
          << ImportNamed(Bare(<< <<"@lib">>, <<"procs">> >>), << "save" >>) >>,
          << Decl("appRouter",
                  PlainCall("router",
                    << ObjectLiteral(
                         << Assign("list", ListQuery("str", FALSE), 4),
                            Assign("ext", Ident("save"), 5) >>
                         \o (IF v.src = "two"
                             THEN << Assign("byId", ByIdQuery("str", FALSE), 6) >>
                             ELSE << >>)) >>),
                  3) >>,
          EmptyMap),
        << "appRouter" >>))
     @@ (WProcs :> SourceFile(<< >>, << Decl("save", SaveMutation, 1) >>,
                              EmptyMap))
     @@ (WLibProcs :> SourceFile(<< >>,
                                 << Decl("save", ListQuery("str", FALSE), 1) >>,
                                 EmptyMap))
     @@ (TsConfigW :> TsConfigMapping(v.cfg))]

\* the version of the project the file system holds
VersionOnDisk == CHOOSE v \in RefreshVersions : fs = RefreshWorld(v)

OtherSource(v) == [v EXCEPT !.src = IF @ = "one" THEN "two" ELSE "one"]

InitRefresh ==
  /\ \E v \in RefreshVersions : fs = RefreshWorld(v)
  /\ CachesEmpty
  /\ BuilderIdle
  /\ ContextIdle
  /\ AnalysisIdle
  /\ SchemaIdle
  /\ ResolverIdle
  /\ ExplorerIdle

\* the order in which this workspace lists its TypeScript files
WorkspaceListing == << WLibProcs, WProcs, WRoot >>

\* a discovery waiting for the listing of a findFiles call
Parked(id, stage, d, seen) ==
  [id |-> id, stage |-> stage, d |-> d, seen |-> seen]

\* webviewProvider.ts:50-62 and routerDiscovery.ts:11-17: refresh() drops the
\* cached trees, sendTree posts "loading", resolveTrees finds nothing cached
\* and discoverAppRouterTrees runs up to its first await
refresh ==
  /\ webview' = [postMessage([webview EXCEPT !.cachedTrees = << >>,
                                             !.cached = FALSE,
                                             !.sends = @ + 1], Loading)
                   EXCEPT !.settled = "pending"]
  /\ flights' = [flights EXCEPT
                   !.started = @ + 1,
                   !.parked = @ \cup { Parked(flights.started + 1, "patterns",
                                              NoDiscovery, {}) }]

\* extension.ts:42-46: the command trpc-explorer.refresh
CommandRefresh ==
  /\ disc.phase # "running" /\ Shows < MaxShows
  /\ refresh
  /\ UNCHANGED << disc, treeView, builderVars, resolverVars, otherVars >>

\* extension.ts:26-40: root.ts is saved and the file watcher calls refresh()
WatcherRefresh ==
  /\ disc.phase # "running" /\ Shows < MaxShows
  /\ fs' = RefreshWorld(OtherSource(VersionOnDisk))
  /\ refresh
  /\ UNCHANGED << disc, treeView, builderVars, resolverVars >>
  /\ UNCHANGED << requests, lastRequest, anaIn, anaOut, schIn, schOut >>

\* tsconfig.json is saved; the watcher of "**/*.ts" does not see it
ConfigEdited ==
  /\ disc.phase # "running"
  /\ \E target \in MappingTargets \ { VersionOnDisk.cfg } :
       fs' = RefreshWorld([VersionOnDisk EXCEPT !.cfg = target])
  /\ UNCHANGED << explorerVars, builderVars, resolverVars >>
  /\ UNCHANGED << requests, lastRequest, anaIn, anaOut, schIn, schOut >>

\* routerDiscovery.ts:16-32: the listings of the patterns arrive; the loop
\* over the prioritized candidates starts
ResumePatterns ==
  /\ disc.phase # "running"
  /\ \E p \in flights.parked : \E listing \in { WorkspaceListing } :
       /\ p.stage = "patterns"
       /\ \E prioritized \in
             { dedup(prioritizedCandidates(RouterDiscoveryPatterns, listing)) } :
            /\ disc' = [startDiscovery("webview", listing)
                          EXCEPT !.files = prioritized]
            /\ flights' = [flights EXCEPT !.running = p.id,
                                          !.stage = "priority",
                                          !.seen = Range(prioritized),
                                          !.parked = @ \ { p }]
  /\ UNCHANGED << webview, treeView, builderVars, resolverVars, otherVars >>

\* routerDiscovery.ts:34-37: the prioritized candidates are done and the
\* discovery awaits the listing of every TypeScript file
AwaitAllFiles ==
  /\ disc.phase = "running" /\ ~disc.pending
  /\ disc.names = << >> /\ disc.files = << >>
  /\ flights.stage = "priority"
  /\ flights' = [flights EXCEPT
                   !.running = 0, !.stage = "", !.seen = {},
                   !.parked = @ \cup { Parked(flights.running, "scan", disc,
                                              flights.seen) }]
  /\ disc' = NoDiscovery
  /\ UNCHANGED << webview, treeView, builderVars, resolverVars, otherVars >>

\* routerDiscovery.ts:39-44: the listing arrives; the loop over the files
\* not seen before starts
ResumeAllFiles ==
  /\ disc.phase # "running"
  /\ \E p \in flights.parked : \E listing \in { WorkspaceListing } :
       /\ p.stage = "scan"
       /\ disc' = [p.d EXCEPT
                     !.files = SelectSeq(findFiles(AllTsFiles, NodeModulesGlob,
                                                   listing),
                                         LAMBDA f : f \notin p.seen),
                     !.listing = listing]
       /\ flights' = [flights EXCEPT !.running = p.id, !.stage = "scan",
                                     !.seen = p.seen, !.parked = @ \ { p }]
  /\ UNCHANGED << webview, treeView, builderVars, resolverVars, otherVars >>

\* routerDiscovery.ts:46-47, webviewProvider.ts:58-62 and 71-74: the
\* discovery returns, resolveTrees stores the trees, sendTree posts them
RefreshDone ==
  /\ disc.phase = "running" /\ ~disc.pending
  /\ disc.names = << >> /\ disc.files = << >>
  /\ flights.stage = "scan"
  /\ Fulfil(disc.trees)
  /\ disc' = [disc EXCEPT !.phase = "done"]
  /\ flights' = [flights EXCEPT
                   !.running = 0, !.stage = "", !.seen = {},
                   !.outcome = MapSet(@, flights.running, disc.trees)]
  /\ UNCHANGED << builderVars, resolverVars, otherVars >>

NextRefresh ==
  \/ ResolveWebviewView
  \/ CommandRefresh
  \/ WatcherRefresh
  \/ ConfigEdited
  \/ ResumePatterns
  \/ AwaitAllFiles
  \/ ResumeAllFiles
  \/ RefreshDone
  \/ DiscoverFile
  \/ DiscoverRouter
  \/ DiscoverCollect
  \/ StepProcedure
  \/ StepIdentifier
  \/ Return

SpecRefresh == InitRefresh /\ [][NextRefresh]_vars

-----------------------------------------------------------------------------
(* Properties of the tree builder, checked under SpecBuild (SpecBuildFair  *)
(* for termination).                                                       *)

\* C1: within one top-level build every (filePath, variableName) key is
\* expanded at most once; a call whose key is already in the visited set
\* returns null and walks nothing.
ExpandedAtMostOnce ==
  /\ \A k \in DOMAIN expansions : expansions[k] <= 1
  /\ lastEntry.valid /\ lastEntry.key \in lastEntry.before
       => lastEntry.isNull /\ ~lastEntry.pushed

\* a key met again in the build that expanded it
ReencounteredKey ==
  /\ lastEntry.valid /\ lastEntry.nested
  /\ lastEntry.key \in lastEntry.before
  /\ lastEntry.isNull
  /\ Count(expansions, lastEntry.key) = 1

\* C2: whatever the routers reference (themselves, each other, routers of
\* other files), a top-level build that has started comes to its end and
\* hands back its result.
BuildTerminates ==
  \A n \in 0..(MaxBuilds - 1) :
    (Building /\ Len(results) = n) ~> (~Building /\ Len(results) = n + 1)

\* a build over routers that reference each other has returned a tree
CyclicBuildFinished ==
  /\ ~Building
  /\ Len(results) >= 1 /\ ~results[Len(results)].isNull
  /\ lastRef.valid /\ lastRef.onStack

\* C3 as stated: only the reference that closes a cycle is left out, and it
\* contributes no child at all; every other reference, a second one to an
\* already expanded router included, is expanded.
OnlyBackEdgeOmitted ==
  lastRef.valid =>
    /\ lastRef.onStack => ~lastRef.pushed /\ lastRef.appended = << >>
    /\ ~lastRef.onStack => lastRef.pushed

\* C3 as amended: a reference to a key already visited in the build (the one
\* that closes a cycle, or a later one to a router expanded elsewhere in the
\* tree) is not expanded: as a shorthand it contributes no child, as
\* `name: identifier` an empty router node named after the property; every
\* reference to a key not yet visited is expanded.
VisitedReferenceNotExpanded ==
  lastRef.valid =>
    IF lastRef.wasVisited
    THEN /\ ~lastRef.pushed
         /\ lastRef.appended =
              IF lastRef.pk = "assign"
              THEN << RouterNode(lastRef.name, lastRef.file, lastRef.line) >>
              ELSE << >>
    ELSE lastRef.pushed /\ lastRef.appended = << >>

\* a second reference, outside any cycle, to a router expanded before
SecondReferenceMet ==
  /\ lastRef.valid /\ lastRef.wasVisited /\ ~lastRef.onStack
  /\ lastRef.pk = "assign"
  /\ Len(lastRef.appended) = 1

\* C4: parseRouterFromFile returns null when the file does not exist or the
\* key is already in visited; visited is then left as it was and no node is
\* created.
NullLeavesVisitedUnchanged ==
  lastEntry.valid /\ (~lastEntry.exists \/ lastEntry.key \in lastEntry.before)
    => /\ lastEntry.isNull
       /\ lastEntry.after = lastEntry.before
       /\ ~lastEntry.pushed

\* a call on a file that does not exist has returned null
MissingFileMet ==
  /\ lastEntry.valid /\ ~lastEntry.exists /\ lastEntry.isNull
  /\ Len(results) >= 1 /\ results[Len(results)].isNull

SemanticCachesEmpty ==
  /\ nearestTsConfigPathCache = EmptyMap
  /\ typeCheckerContextCache = EmptyMap
  /\ enumResolutionCache = EmptyMap

Kept(cache, after) ==
  \A k \in DOMAIN cache : k \in DOMAIN after /\ after[k] = cache[k]

\* C5: a top-level call leaves the three semantic caches empty before
\* anything of its build is analysed; no step of a build in progress, nested
\* calls included, removes or changes an entry.
ClearedOnlyAtTopLevelStep ==
  /\ ~Building => SemanticCachesEmpty'
  /\ Building => /\ Kept(nearestTsConfigPathCache, nearestTsConfigPathCache')
                 /\ Kept(typeCheckerContextCache, typeCheckerContextCache')
                 /\ Kept(enumResolutionCache, enumResolutionCache')

ClearedOnlyAtTopLevel == [][ClearedOnlyAtTopLevelStep]_vars

\* a nested call was entered with entries in the caches and cleared nothing
NestedCallKeptCaches ==
  /\ Building
  /\ lastEntry.valid /\ lastEntry.nested /\ ~lastEntry.cleared
  /\ typeCheckerContextCache # EmptyMap
  /\ nearestTsConfigPathCache # EmptyMap

\* C7: two builds in a row of the same (file, variableName) give the same
\* tree, whatever the caches held when each started.
RebuildIsIdentical ==
  \A i \in 1..(Len(results) - 1) :
    results[i].key = results[i + 1].key
      => /\ results[i].isNull = results[i + 1].isNull
         /\ results[i].tree = results[i + 1].tree

\* a root was built twice in a row after a build of another root
RebuiltAfterOtherRoot ==
  /\ Len(results) = 3
  /\ results[1].key # results[2].key /\ ~results[1].isNull
  /\ results[2].key = results[3].key
  /\ ~results[3].isNull
  /\ Len(results[3].tree.children) > 2

-----------------------------------------------------------------------------
(* Properties of getTypeCheckerContext, checked under SpecContext. *)

\* C6: between two clears the context of a configuration root is
\* constructed at most once, whichever files under it ask and in whatever
\* order; a construction that failed is cached as none, and a later request
\* for that root gets none without another construction.
ContextBuiltOncePerRoot ==
  /\ \A root \in DOMAIN constructions : constructions[root] <= 1
  /\ lastRequest.valid /\ lastRequest.cachedBefore => lastRequest.built = 0
  /\ lastRequest.valid /\ lastRequest.failedBefore
       => ~lastRequest.ok /\ lastRequest.built = 0

\* a root whose construction had failed was asked for again
FailedRootAskedAgain ==
  /\ lastRequest.valid /\ lastRequest.failedBefore
  /\ ~lastRequest.ok
  /\ Count(constructions, lastRequest.root) = 1

-----------------------------------------------------------------------------
(* Properties of analyzeProcedureChain, checked under SpecAnalysis. *)

\* the text of the .input(...) argument the chain of the input carries
ExplicitInputOf(q) ==
  IF q.inArg \notin { "none", "empty" } THEN ArgumentText(q.inArg)
  ELSE IF q.twice THEN ZodNumber ELSE Undef

\* the text of the .output(...) argument the chain of the input carries
ExplicitOutputOf(q) ==
  IF q.outArg \in { "zod", "alias" } THEN ArgumentText(q.outArg) ELSE Undef

\* C8: with an explicit .input(arg) (.output(arg)) in the chain, the
\* inputSchema (outputSchema) returned is the resolution of that argument's
\* text, whatever the resolver's returns and the procedure's type give.
ExplicitSchemaWins ==
  anaOut.valid /\ anaOut.r.isProc =>
    LET q == anaIn.params IN
    /\ ExplicitInputOf(q) # Undef =>
         anaOut.r.inputSchema =
           resolveSchemaText(ExplicitInputOf(q), anaIn.filePath, 0, EmptyMap).text
    /\ ExplicitOutputOf(q) # Undef =>
         anaOut.r.outputSchema =
           resolveSchemaText(ExplicitOutputOf(q), anaIn.filePath, 0, EmptyMap).text

\* an explicit input and output met an informative procedure type
ExplicitMetProcedureType ==
  /\ anaOut.valid /\ anaOut.r.isProc
  /\ anaIn.params.inArg = "alias" /\ anaIn.params.outArg = "zod"
  /\ anaIn.params.ptin = "object" /\ anaIn.params.ptout = "role"
  /\ anaIn.params.configOk
  /\ anaOut.r.inputSchema = UserInputText
  /\ anaOut.r.outputSchema = ZodString

\* C9: without an explicit output, an informative type inferred from the
\* resolver's return expressions is the outputSchema returned; the output
\* read from the procedure's own type replaces it only when that inference
\* gave nothing informative.
StructuralOutputWins ==
  /\ anaOut.valid /\ anaOut.r.isProc
  /\ ExplicitOutputOf(anaIn.params) = Undef
  /\ anaOut.inferred # Undef
  /\ ~isNonInformativeInferredType(anaOut.inferred)
  => anaOut.r.outputSchema = anaOut.inferred

RECURSIVE OwnSuffixes(_, _)
\* the names of the calls chained from position j of a schema text on
OwnSuffixes(t, j) ==
  IF j + 3 <= Len(t) /\ t[j] = "." /\ t[j + 2] = "(" /\ t[j + 3] = ")"
  THEN { t[j + 1] } \cup OwnSuffixes(t, j + 4)
  ELSE {}

FieldShapes == { "alias", "later", "earlier", "own" }

\* the resolver returns input.id and the chain gives the input's shape
ReturnsInputField ==
  /\ anaOut.valid /\ anaOut.r.isProc
  /\ anaIn.params.resolver = "field" /\ anaIn.params.outArg = "none"
  /\ anaIn.params.inArg \in FieldShapes

\* C27: the type inferred for a returned `input.id` is the primitive type T
\* of the field id in the resolved input shape; it is `T | undefined` only
\* if id itself carries .optional(), `T | null` only if id itself carries
\* .nullable(), and plain T when id carries neither, whatever the other
\* fields of the shape carry.
FieldTypeHonorsOwnSuffixes ==
  ReturnsInputField =>
    LET t == anaOut.r.inputSchema
        i == CHOOSE x \in fieldBaseMatches(t, "id") :
               \A y \in fieldBaseMatches(t, "id") : x <= y
        T == PrimitiveMap(t[i + 4])
        own == OwnSuffixes(t, i + 7)
    IN /\ anaOut.inferred \in { << T >>, << T, "|", "undefined" >>,
                                << T, "|", "null" >> }
       /\ anaOut.inferred = << T, "|", "undefined" >> => "optional" \in own
       /\ anaOut.inferred = << T, "|", "null" >> => "nullable" \in own
       /\ own \cap { "optional", "nullable" } = {} => anaOut.inferred = << T >>

-----------------------------------------------------------------------------
(* Properties of resolveSchemaText, checked under SpecSchema. *)

\* C10 as stated: a top-level call returns, after at most DepthCap
\* identifier resolutions.
ResolutionsWithinCap == schOut.valid => schOut.n <= DepthCap

\* C10 as amended: a top-level call returns a text for every alias graph,
\* cyclic ones and chains that never reach a literal included; the calls at
\* depths 0 to DepthCap each resolve at most one identifier, so one
\* top-level call makes at most DepthCap + 1 identifier resolutions.
ResolutionsWithinCapPlusOne ==
  schOut.valid => schOut.n <= DepthCap + 1 /\ schOut.text # Undef

\* a chain that never reaches a literal was cut at the cap
ChainCutAtCap ==
  /\ schOut.valid
  /\ schOut.n = DepthCap + 1
  /\ schIn.params.len >= DepthCap + 1
  /\ Head(schOut.text) \in Range(AliasNames)

RECURSIVE Suffixes(_)
\* n optional suffixes in a row
Suffixes(n) == IF n = 0 THEN << >> ELSE OptionalSuffix \o Suffixes(n - 1)

\* the identifiers a call for the chain of q has to resolve: the chain ends
\* early at a name /p/src/a.ts both imports and declares
Hops(q) == IF q.decoy = "local" THEN q.split + 1 ELSE q.len

\* C24: the leading identifier of a schema text is resolved against a local
\* declaration of the current file first and through the import binding
\* only if there is none; the suffix is spliced onto the initializer, and
\* every further identifier is resolved in the file where the previous
\* initializer was found.  For a chain that ends within the depth cap the
\* call returns the last initializer followed by every suffix met on the way.
ResolvedWhereFound ==
  LET q == schIn.params IN
  schOut.valid /\ q.term.t # "cycle" /\ Hops(q) <= DepthCap + 1
    => /\ schOut.text = (IF q.decoy = "local" THEN DecoyText
                         ELSE TerminalText(q.term))
                        \o (IF q.suffixed THEN Suffixes(Hops(q)) ELSE << >>)
       /\ schOut.n = Hops(q) + (IF q.decoy # "local" /\ q.term.t = "unresolved"
                                  /\ Hops(q) <= DepthCap THEN 1 ELSE 0)

\* a chain was followed into /p/lib/b.ts and on from there, although
\* /p/src/a.ts declares the next name too; the suffixes were kept
ContextSwitchMet ==
  /\ schOut.valid
  /\ schIn.params.decoy = "context"
  /\ schIn.params.suffixed
  /\ schIn.params.split >= 1
  /\ schIn.params.term.t = "zod"
  /\ schOut.text = ZodString \o Suffixes(schIn.params.len)

-----------------------------------------------------------------------------
(* Properties of the module resolver, checked under SpecResolve. *)

\* the lookup behind the last import gave exactly {"@app/*": ["./src/*"]}
\* with base directory /r
AppMappingInForce ==
  /\ lastImport.valid
  /\ lastImport.specifier = AppDb
  /\ lastImport.config = [found |-> TRUE, paths |-> << AppPattern >>,
                          baseUrl |-> DirR]

\* C11, as stated: under the mapping {"@app/*": ["./src/*"]} with base
\* directory /r, importing "@app/db" gives /r/src/db.ts if that file exists
\* and /r/src/db/index.ts otherwise, whatever the file system holds.
AppDbIsTsElseIndex ==
  AppMappingInForce =>
    lastImport.r = IF isFile(SrcDbTs) THEN SrcDbTs ELSE SrcDbIndexTs

\* C11, amended: under that mapping, importing "@app/db" gives the first
\* regular file among /r/src/db, /r/src/db.ts, /r/src/db.tsx,
\* /r/src/db/index.ts and /r/src/db/index.tsx, and none when there is none.
AppDbIsFirstCandidate ==
  AppMappingInForce =>
    lastImport.r = IF isFile(SrcDb) THEN SrcDb
                   ELSE IF isFile(SrcDbTs) THEN SrcDbTs
                   ELSE IF isFile(SrcDbTsx) THEN SrcDbTsx
                   ELSE IF isFile(SrcDbIndexTs) THEN SrcDbIndexTs
                   ELSE IF isFile(SrcDbIndexTsx) THEN SrcDbIndexTsx
                   ELSE NoPath

\* "@app/db" was imported while /r/src/db and /r/src/db.ts were both files
AppDbMetExtensionlessFile ==
  /\ AppMappingInForce
  /\ isFile(SrcDb) /\ isFile(SrcDbTs)
  /\ lastImport.r = SrcDb

\* C12: resolveFile(base) returns the first regular file among the base,
\* the base with ".ts" or ".tsx" added and index.ts or index.tsx inside the
\* base, in this order; none when no candidate is a regular file; never a
\* directory.
ResolveFileFirstRegularFile ==
  lastFile.valid =>
    LET base == lastFile.base
        ordered == << base, withExt(base, ".ts"), withExt(base, ".tsx"),
                      join(base, <<"index", ".ts">>),
                      join(base, <<"index", ".tsx">>) >>
    IN /\ lastFile.r \notin fs.dirs
       /\ lastFile.r = NoPath => \A i \in 1..5 : ~isFile(ordered[i])
       /\ lastFile.r # NoPath =>
            \E i \in 1..5 : /\ ordered[i] = lastFile.r
                            /\ isFile(ordered[i])
                            /\ \A j \in 1..(i - 1) : ~isFile(ordered[j])

\* resolveFile met a base that is a directory while base.ts and
\* base/index.ts were both files
DirectoryBaseMet ==
  /\ lastFile.valid
  /\ lastFile.base \in fs.dirs
  /\ isFile(withExt(lastFile.base, ".ts"))
  /\ isFile(join(lastFile.base, <<"index", ".ts">>))
  /\ lastFile.r = withExt(lastFile.base, ".ts")

\* the declared patterns a specifier matches, by position
MatchingPatterns(paths, specifier) ==
  { i \in 1..Len(paths) : patternMatches(paths[i], specifier) }

\* the matching pattern with the longest literal prefix, by position
LongestMatch(paths, specifier) ==
  CHOOSE i \in MatchingPatterns(paths, specifier) :
    \A j \in MatchingPatterns(paths, specifier) :
      Len(paths[j].pre) <= Len(paths[i].pre)

\* C13: when a non-relative specifier matches several patterns, the file
\* resolveImport returns is the one the substitutions of the pattern with
\* the longest literal prefix give, in whatever order the patterns are
\* declared.
LongestPrefixPatternWins ==
  /\ lastImport.valid
  /\ ~lastImport.specifier.rel
  /\ lastImport.config.found
  /\ Cardinality(MatchingPatterns(lastImport.config.paths,
                                  lastImport.specifier)) > 1
  => LET paths == lastImport.config.paths
         segs == lastImport.specifier.segs
         longest == paths[LongestMatch(paths, lastImport.specifier)]
     IN lastImport.r =
          firstResolved(longest.subs,
                        SubSeq(segs, Len(longest.pre) + 1, Len(segs)),
                        lastImport.config.baseUrl)

RECURSIVE NearestMappingDir(_)
\* the nearest directory, from dir upwards, whose tsconfig.json holds a
\* non-empty path-mapping table (Root: there is none)
NearestMappingDir(dir) ==
  IF dir = Root THEN Root
  ELSE IF readTsConfigPaths(dir).found /\ readTsConfigPaths(dir).paths # << >>
  THEN dir
  ELSE NearestMappingDir(dirname(dir))

RECURSIVE NearestConfigDir(_)
\* the nearest directory, from dir upwards, that holds a tsconfig.json
\* (Root: there is none)
NearestConfigDir(dir) ==
  IF dir = Root THEN Root
  ELSE IF existsSync(join(dir, TsConfigName)) THEN dir
  ELSE NearestConfigDir(dirname(dir))

\* C14, as stated: the lookup returns the mapping of the nearest directory
\* whose configuration file has a non-empty path-mapping table; a nearer
\* configuration file without such a table does not stop the walk.
NearestMappingReturned ==
  lastLookup.valid =>
    LET d == NearestMappingDir(lastLookup.start)
    IN lastLookup.r = IF d = Root THEN NoTsConfigPaths ELSE readTsConfigPaths(d)

\* C14, amended: the walk stops at the nearest directory that holds a
\* configuration file, whatever the file holds: the lookup returns that
\* file's table if it has one and none otherwise, and no enclosing
\* configuration is consulted; without any configuration file it returns none.
NearestConfigurationDecides ==
  lastLookup.valid =>
    LET d == NearestConfigDir(lastLookup.start)
    IN lastLookup.r = IF d = Root THEN NoTsConfigPaths ELSE readTsConfigPaths(d)

\* a lookup from below a configuration file without a table, itself below
\* a configuration file with one
TablelessConfigurationMet ==
  /\ lastLookup.valid
  /\ lastLookup.from = RB
  /\ existsSync(TsConfigRLib)
  /\ ~readTsConfigPaths(DirRLib).found
  /\ readTsConfigPaths(DirR).found
  /\ ~lastLookup.r.found

\* C15, as stated: after a lookup every directory the walk visited has an
\* entry in the path-mapping cache.
EveryVisitedDirectoryMemoized ==
  lastLookup.valid =>
    \A i \in 1..Len(lastLookup.walked) :
      lastLookup.walked[i] \in DOMAIN tsConfigPathsCache

\* C15, amended: after a lookup, of the directories the walk visited only
\* the one where it stopped on a configuration file or on a cached entry
\* has an entry in the path-mapping cache; the directories it passed on the
\* way up have none.
OnlyStopDirectoryMemoized ==
  lastLookup.valid =>
    \A i \in 1..Len(lastLookup.walked) :
      lastLookup.walked[i] \in DOMAIN tsConfigPathsCache
        <=> /\ i = Len(lastLookup.walked)
            /\ \/ lastLookup.walked[i] \in DOMAIN lastLookup.before
               \/ existsSync(join(lastLookup.walked[i], TsConfigName))

\* a lookup that passed a directory on its way to a configuration file
\* it had not read before
PassedDirectoryMet ==
  /\ lastLookup.valid
  /\ Len(lastLookup.walked) = 2
  /\ lastLookup.walked[1] \notin DOMAIN tsConfigPathsCache
  /\ lastLookup.walked[2] \notin DOMAIN lastLookup.before
  /\ lastLookup.walked[2] \in DOMAIN tsConfigPathsCache

\* C16: a lookup from a directory with no reachable configuration that
\* returned none leaves a "none" entry for that directory, and a second
\* lookup from the same directory probes the file system no more.
NoneCachedForStartDirectory ==
  /\ lastLookup.valid
  /\ NearestConfigDir(lastLookup.start) = Root
  /\ ~lastLookup.r.found
  => /\ lastLookup.start \in DOMAIN tsConfigPathsCache
     /\ lastLookup.repeated /\ lastLookup.noneBefore => lastLookup.probes = 0

-----------------------------------------------------------------------------
(* A property of the type-checker contexts, checked under SpecContext. *)

\* C17: every getTypeCheckerContext(filePath) request that returns a
\* context returns one whose program has filePath among its root names,
\* also when the context of that configuration was built for another file.
RequestedFileAmongRootNames ==
  lastRequest.valid /\ lastRequest.ok
    => lastRequest.filePath \in Range(lastRequest.rootNames)

-----------------------------------------------------------------------------
(* Properties of discovery and of the views, checked under SpecExplorer. *)

\* /w/server/root.ts is the file of the end-to-end scenario
ScenarioFile ==
  \E q \in ExplorerParams :
    q.router = "scenario" /\ fs.files[WRoot] = ScenarioSource(q)

\* C18: for a file that declares `type AppRouter = typeof appRouter` and
\* `appRouter = router({ list: publicProcedure.query(...), byId:
\* publicProcedure.input(z.string()).query(...) })`, discovery yields exactly
\* one root, a router node, with exactly the children `list` and `byId` in
\* this order, both queries, the second with the input schema `z.string()`.
ScenarioYieldsOneRoot ==
  disc.phase = "done" /\ ScenarioFile
    => /\ Len(disc.trees) = 1
       /\ disc.trees[1].type = "router"
       /\ Len(disc.trees[1].children) = 2
       /\ disc.trees[1].children[1].name = "list"
       /\ disc.trees[1].children[1].type = "query"
       /\ disc.trees[1].children[2].name = "byId"
       /\ disc.trees[1].children[2].type = "query"
       /\ disc.trees[1].children[2].inputSchema = ZodString

\* the scenario was discovered for the view, in a project whose type checker
\* offers another input type for byId
ScenarioShown ==
  /\ disc.phase = "done" /\ ScenarioFile
  /\ TsConfigW \in DOMAIN fs.files
  /\ typeCheckerContextCache # EmptyMap
  /\ webview.settled = "fulfilled"
  /\ webview.rootNodes = << AppRouterDisplayName >>

\* appRouter of /w/server/root.ts was built with the properties `same`
\* (inline) and `ext` (the default import)
DefaultImportBuilt ==
  /\ disc.phase = "done"
  /\ fs.files[WRoot].imports # << >>
  /\ disc.trees # << >>
  /\ Len(disc.trees[1].children) >= 4
  /\ disc.trees[1].children[3].name = "same"
  /\ disc.trees[1].children[4].name = "ext"

\* C19: a property whose value is an identifier imported by default from a
\* file that defines a procedure chain becomes a leaf with the kind, input
\* schema and output schema the inline chain has, and with the defining file
\* as its filePath, whatever local name the import gives the binding.
DefaultImportIsLeaf ==
  DefaultImportBuilt
    => LET same == disc.trees[1].children[3]
           ext == disc.trees[1].children[4]
       IN /\ ext.type = same.type
          /\ ext.inputSchema = same.inputSchema
          /\ ext.outputSchema = same.outputSchema
          /\ ext.children = << >>
          /\ ext.filePath = WProcs

\* C20: when a failure leaves discovery, the webview provider still posts an
\* update after its loading message, so the view is no longer loading, and
\* getChildren of the tree provider still returns items.
FailureStillRendered ==
  /\ disc.phase = "failed" /\ disc.owner = "webview" /\ webview.posted # << >>
       => /\ webview.posted[Len(webview.posted)].type = "update"
          /\ ~webview.isLoading
  /\ disc.phase = "failed" /\ disc.owner = "tree"
       => /\ treeView.settled = "fulfilled"
          /\ treeView.items # << >>

RECURSIVE LeavesChildless(_)
\* in the tree of `node`, only router and file nodes have children
LeavesChildless(node) ==
  /\ node.children # << >> => node.type \in { "router", "file" }
  /\ \A i \in 1..Len(node.children) : LeavesChildless(node.children[i])

\* C21: in every tree the builder returned or is building, and in every node
\* handed to the views, only router and file nodes have a non-empty children
\* list; every query, mutation and subscription node has none.
OnlyCollectionsHaveChildren ==
  /\ \A i \in 1..Len(stack) : LeavesChildless(stack[i].node)
  /\ \A i \in 1..Len(results) : LeavesChildless(results[i].tree)
  /\ \A i \in 1..Len(disc.trees) : LeavesChildless(disc.trees[i])
  /\ \A i \in 1..Len(treeView.items) : LeavesChildless(treeView.items[i])
  /\ \A i \in 1..Len(webview.posted) :
        \A j \in 1..Len(webview.posted[i].trees) :
          LeavesChildless(webview.posted[i].trees[j])

\* getChildren returned a file node that groups two routers, each with leaves
FileGroupShown ==
  /\ treeView.settled = "fulfilled"
  /\ Len(treeView.items) = 1
  /\ treeView.items[1].type = "file"
  /\ Len(treeView.items[1].children) = 2
  /\ \A i \in 1..2 :
        \E j \in 1..Len(treeView.items[1].children[i].children) :
          treeView.items[1].children[i].children[j].type = "query"

-----------------------------------------------------------------------------
(* Further properties of the tree builder, checked under SpecBuild. *)

\* the property has one of the four shapes parseRouterObject looks into
HandledShape(prop, filePath) ==
  \/ prop.pk = "shorthand"
  \/ /\ prop.pk = "assign"
     /\ \/ prop.value.k = "ident"
        \/ analyzeProcedureChain(prop.value, filePath, Caches).r.isProc
        \/ prop.value.k = "call" /\ isRouterCall(prop.value)

\* the walk of the top frame's first property added one empty router node
\* named after the property and nothing else
AddedPlaceholder(name) ==
  /\ Len(stack') = Len(stack)
  /\ Len(stack'[Len(stack)].node.children) = Len(Top.node.children) + 1
  /\ SubSeq(stack'[Len(stack)].node.children, 1, Len(Top.node.children))
       = Top.node.children
  /\ LET child == stack'[Len(stack)].node.children[Len(Top.node.children) + 1]
     IN /\ child.type = "router"
        /\ child.children = << >>
        /\ child.name = name

\* C22: a property of a router object literal that is neither a procedure
\* chain, a bare identifier, an inline router call nor a shorthand is emitted
\* as an empty router node named after the property; none is dropped.
OtherShapesEmittedStep ==
  Building /\ Top.props # << >> /\ ~HandledShape(Head(Top.props), Top.file)
    => AddedPlaceholder(Head(Top.props).name)

OtherShapesEmitted == [][OtherShapesEmittedStep]_vars

\* filePath declares varName with a procedure chain as its initializer
DeclaresProcedure(filePath, varName) ==
  LET sourceFile == fs.files[filePath]
      i == findDeclaration(sourceFile, varName)
  IN /\ i # 0
     /\ analyzeProcedureChain(sourceFile.decls[i].init, filePath, Caches).r.isProc

\* the file where `name`, used in filePath, is defined as a procedure: the
\* file itself, else the one its import binding leads to (NoPath: nowhere)
ProcedureHome(name, filePath) ==
  LET imports == getImports(fs.files[filePath]) IN
  IF DeclaresProcedure(filePath, name) THEN filePath
  ELSE IF name \notin DOMAIN imports THEN NoPath
  ELSE LET target == resolveImport(imports[name].moduleSpecifier, filePath,
                                   tsConfigPathsCache).r
           targetVar == IF imports[name].isDefault THEN name
                        ELSE imports[name].importName
       IN IF target # NoPath /\ existsSync(target)
             /\ DeclaresProcedure(target, targetVar)
          THEN target ELSE NoPath

\* the walk of the top frame's first property added one leaf defined in
\* `home` and nothing else
AddedLeaf(name, home) ==
  /\ Len(stack') = Len(stack)
  /\ Len(stack'[Len(stack)].node.children) = Len(Top.node.children) + 1
  /\ LET child == stack'[Len(stack)].node.children[Len(Top.node.children) + 1]
     IN /\ child.type \in ProcedureMethods
        /\ child.children = << >>
        /\ child.name = name
        /\ child.filePath = home

\* C23: a property whose value is a bare identifier is resolved as a procedure
\* first, by its local declaration, else through its import binding; then
\* exactly one leaf is emitted, the visited set is unchanged and no router is
\* looked for.  Only when that fails is the identifier tried as a router.
ProcedureBeforeRouterStep ==
  (/\ Building /\ Top.props # << >>
   /\ Head(Top.props).pk = "assign" /\ Head(Top.props).value.k = "ident")
    => LET prop == Head(Top.props)
           home == ProcedureHome(prop.value.name, Top.file)
       IN IF home # NoPath
          THEN /\ AddedLeaf(prop.name, home)
               /\ visited' = visited
               /\ lastEntry' = lastEntry /\ lastRef' = lastRef
          ELSE /\ lastEntry'.valid /\ lastEntry'.nested
               /\ lastRef'.valid /\ lastRef'.name = prop.name
               /\ lastRef'.line = prop.line

ProcedureBeforeRouter == [][ProcedureBeforeRouterStep]_vars

\* a build returned a tree with a leaf that was found through an import
ImportedProcedureMet ==
  \E i \in 1..Len(results) :
    \E j \in 1..Len(results[i].tree.children) :
      /\ results[i].tree.children[j].name = "rem"
      /\ results[i].tree.children[j].type = "mutation"
      /\ results[i].tree.children[j].filePath = F3
      /\ results[i].tree.filePath = F1

\* the step makes a parseRouterFromFile call: the key it is called with
\* (NoKey when the step makes none) and the visited set it is handed
CalledKey ==
  IF ~Building /\ lastEntry'.valid /\ ~lastEntry'.nested
     /\ (Building' \/ Len(results') > Len(results))
  THEN lastEntry'.key
  ELSE IF Building /\ lastRef' # lastRef THEN lastRef'.target
  ELSE NoKey

HandedVisited == IF Building THEN visited ELSE newVisited

\* C28: a parseRouterFromFile call on a file that exists, with a key that is
\* not in the visited set, records the key and enters a router node without
\* children, named after the variable; when no declaration matches, that node
\* goes back as it is, so the property that named the variable gets an empty
\* router child under the property's name.
UndeclaredRouterIsEmptyNodeStep ==
  /\ (/\ CalledKey # NoKey
      /\ existsSync(CalledKey[1])
      /\ CalledKey \notin HandedVisited)
       => /\ Len(stack') = Len(stack) + 1
          /\ stack'[Len(stack')].node
               = RouterNode(CalledKey[2], CalledKey[1], 0)
          /\ CalledKey \in visited'
  /\ (/\ Building /\ Len(stack) > 1 /\ Top.props = << >>
      /\ Top.kind = "file" /\ Top.node.children = << >>)
       => LET parent == stack[Len(stack) - 1].node
              after == stack'[Len(stack')].node
          IN /\ Len(stack') = Len(stack) - 1
             /\ after.children
                  = Append(parent.children,
                           [RouterNode(Top.key, Top.file, 0) EXCEPT
                              !.children = << >>])

UndeclaredRouterIsEmptyNode == [][UndeclaredRouterIsEmptyNodeStep]_vars

\* the builder returned a tree in which the identifier Ghost and the shorthand
\* Phantom, which nothing declares, are empty router nodes
NothingNamedMet ==
  /\ \E i \in 1..Len(results) :
       /\ ~results[i].isNull
       /\ results[i].key = << F2, "C" >>
       /\ \E j \in 1..Len(results[i].tree.children) :
            \E k \in 1..Len(results[i].tree.children) :
              /\ results[i].tree.children[j].name = "ghost"
              /\ results[i].tree.children[j].type = "router"
              /\ results[i].tree.children[j].children = << >>
              /\ results[i].tree.children[k].name = "Phantom"
              /\ results[i].tree.children[k].type = "router"
              /\ results[i].tree.children[k].children = << >>

\* C26: within one top-level build the whole-program lookup of an enum name
\* is made at most once, a failed lookup included: every name the cache
\* holds was looked up exactly once since the build began, and every name
\* looked up since then is in the cache.  The clear at the entry of a
\* top-level build empties both, so no entry is older than the build.
EnumLookedUpOncePerBuild ==
  /\ DOMAIN enumResolutionCache = DOMAIN enumLookups
  /\ \A enumName \in DOMAIN enumLookups : enumLookups[enumName] = 1

\* a later build has cached the failed lookup of Status, which the type it
\* resolved names twice, next to the successful lookup of Role
FailedLookupCached ==
  /\ Len(results) >= 1 /\ Building
  /\ "Status" \in DOMAIN enumResolutionCache
  /\ enumResolutionCache["Status"] = Undef
  /\ "Role" \in DOMAIN enumResolutionCache
  /\ enumResolutionCache["Role"] = RoleLiterals

-----------------------------------------------------------------------------
(* Further properties of discovery, checked under SpecExplorer. *)

NoRepeats(xs) == \A i, j \in 1..Len(xs) : i # j => xs[i] # xs[j]

\* the file matches one of the priority patterns
PriorityFile(p) ==
  \E k \in 1..Len(RouterDiscoveryPatterns) :
    globMatches(RouterDiscoveryPatterns[k], p)

\* C25: in one discovery pass each candidate file is probed for aliases at
\* most once and each (filePath, routerVarName) key is built at most once,
\* also for a file that matches several priority patterns and the
\* exhaustive scan; trees of files matched by a priority pattern come before
\* trees of files only the exhaustive scan found.
ProbedAndBuiltOnce ==
  /\ NoRepeats(disc.probed)
  /\ NoRepeats(disc.built)
  /\ \A i, j \in 1..Len(disc.trees) :
        i < j /\ PriorityFile(disc.trees[j].filePath)
          => PriorityFile(disc.trees[i].filePath)

\* the workspace listed /w/main.ts first, /w/server/root.ts matched two
\* priority patterns and the scan, and both files gave a tree
PriorityBeforeScanMet ==
  /\ disc.phase = "done"
  /\ disc.listing # << >> /\ disc.listing[1] = WMain
  /\ Len(disc.trees) = 2
  /\ disc.trees[1].filePath = WRoot
  /\ disc.trees[2].filePath = WMain
  /\ Len(prioritizedCandidates(RouterDiscoveryPatterns, disc.listing))
       > Len(dedup(prioritizedCandidates(RouterDiscoveryPatterns, disc.listing)))

-----------------------------------------------------------------------------
(* Properties of overlapping refreshes, checked under SpecRefresh. *)

\* every refresh() call made so far has run to its end
AllRefreshesCompleted ==
  /\ flights.started >= 1
  /\ flights.parked = {} /\ flights.running = 0

\* C29: however the refresh() calls overlap, once all of them have completed
\* the trees the provider caches, and the last update it posted, are the
\* trees returned by the discovery that the most recent refresh() started.
LatestRefreshWins ==
  AllRefreshesCompleted =>
    /\ webview.cachedTrees = flights.outcome[flights.started]
    /\ (/\ webview.posted # << >>
        /\ webview.posted[Len(webview.posted)].type = "update")
         => webview.posted[Len(webview.posted)].trees
              = flights.outcome[flights.started]

\* the target the mapping cached for /w sends "@lib/*" to
CachedTarget ==
  IF tsConfigPathsCache[DirW].found
  THEN tsConfigPathsCache[DirW].paths[1].subs[1][2][1]
  ELSE "none"

\* what `ext: save` becomes when "@lib/procs" is resolved under the target:
\* the query of /w/lib/procs.ts, the mutation of /w/server/procs.ts, or an
\* empty router when the specifier resolves to nothing
SaveUnder(target) ==
  CASE target = "lib" -> "query"
    [] target = "server" -> "mutation"
    [] OTHER -> "router"

\* every tree returned so far resolved `ext` under the cached mapping
ResolvedUnderCachedMapping ==
  \A i \in 1..Len(results) :
    ~results[i].isNull =>
      \A j \in 1..Len(results[i].tree.children) :
        results[i].tree.children[j].name = "ext"
          => results[i].tree.children[j].type = SaveUnder(CachedTarget)

\* C30: no step removes or changes an entry of tsConfigPathsCache, a cached
\* "none" included: the clear at the entry of a top-level build leaves the
\* cache as it is.  So every tree built so far resolved "@lib/procs"
\* under the mapping that was read first, whatever tsconfig.json says now.
PathsCacheOutlivesBuildsStep ==
  /\ Kept(tsConfigPathsCache, tsConfigPathsCache')
  /\ ResolvedUnderCachedMapping'

PathsCacheOutlivesBuilds == [][PathsCacheOutlivesBuildsStep]_vars

\* tsconfig.json was edited after an earlier build; the build in progress
\* has resolved `ext` under the mapping that build had read
StaleMappingUsed ==
  /\ Len(results) >= 1 /\ Building
  /\ DirW \in DOMAIN tsConfigPathsCache
  /\ VersionOnDisk.cfg # CachedTarget
  /\ \E j \in 1..Len(stack[1].node.children) :
       /\ stack[1].node.children[j].name = "ext"
       /\ stack[1].node.children[j].type = SaveUnder(CachedTarget)

\* the same, with a cached "none": the configuration had no paths when it
\* was read and maps "@lib/*" now
StaleNoneUsed == StaleMappingUsed /\ CachedTarget = "none"

====
